---- MODULE Spec2Model ----
(***************************************************************************)
(* Collision Threat Scoring engine (src/js/cts-engine.js), the positions    *)
(* its caller hands to it, and the simulation scheduler (src/js/app.js).   *)
(*                                                                         *)
(* Number representation.  JavaScript numbers are modelled by integers:    *)
(*   - positions are coordinates on a line through the player, in          *)
(*     thousandths of a scene unit (1 scene unit = 1000 km), so that       *)
(*     distance * 1000 of the source is the integer number of km;          *)
(*   - fractional quantities (the threat accumulator, the argument of      *)
(*     setForceScore) are counted in units of 1/DANGER_WEIGHT_DEN, i.e. in *)
(*     halves, because DANGER_WEIGHT is 0.5 = 1/2;                         *)
(*   - scores (rounded values) are plain integers;                         *)
(*   - null and NaN are two integers outside every numeric range used;     *)
(*   - wall-clock and virtual times are integer milliseconds (a Date holds  *)
(*     an integer time value); the time multiplier is counted in           *)
(*     hundredths (10 is 0.1x, 100 is real time, 10000 is 100x).           *)
(***************************************************************************)
EXTENDS Integers, Sequences, FiniteSets, TLC

\* ---------------------------------------------------------------- bounds
MaxCalls == 3          \* calculateScore calls made in one behaviour
MaxDebris == 3         \* longest debris list drawn for the scoring function
MaxTicks == 3          \* animate() frames run in one behaviour

\* ------------------------------------------------------ program constants
DANGER_RADIUS == 100
CRITICAL_RADIUS == 10
EXTREME_RADIUS == 5
DANGER_WEIGHT_NUM == 1
DANGER_WEIGHT_DEN == 2
CRITICAL_BONUS == 50
EXTREME_BONUS == 80
MAX_HISTORY == 120
DEBRIS_UPDATE_INTERVAL == 100
ACTIVE_SAT_INTERVAL == 500
CTS_UPDATE_INTERVAL == 100
UI_UPDATE_INTERVAL == 100

NULL == -1000000
NaN == -2000000

VARIABLES
    historicalScores,   \* cts-engine.js:25
    forceScore,         \* cts-engine.js:28
    lastThreats,        \* cts-engine.js:31
    playerPosition,     \* the player position handed to calculateScore
    debrisPositions,    \* the debris positions handed to calculateScore
    ret,                \* the last operation, its argument and what it returned
    returned,           \* history variable: values calculateScore returned since the last reset
    forceArg,           \* history variable: the argument of the last setForceScore call
    ncalls              \* calculateScore calls made so far in this behaviour

\* The scheduler's state (app.js:10-22) and what its last frame did.
VARIABLES
    isRunning,            \* app.js:10
    currentDate,          \* app.js:14, the virtual time in ms
    lastUpdateTime,       \* app.js:15, the wall-clock time of the last frame in ms
    timeMultiplier,       \* app.js:16, in hundredths
    frameCount,           \* app.js:19
    lastDebrisUpdate,     \* app.js:20
    lastActiveSatUpdate,  \* app.js:21
    lastCTSUpdate,        \* app.js:22
    lastUIUpdate,         \* app.js:23
    ctsDisplay,           \* the score last handed to UIController.updateCTSDisplay
    tickLog               \* the update categories the last frame ran, in order, with the virtual time each used

schedVars == <<isRunning, currentDate, lastUpdateTime, timeMultiplier, frameCount,
               lastDebrisUpdate, lastActiveSatUpdate, lastCTSUpdate, lastUIUpdate,
               ctsDisplay, tickLog>>

VARIABLES
    playerSatellite,      \* orbital.js:17, the player's record or null
    activeSatellites,     \* orbital.js:14, the records stored, in order
    debrisSatellites,     \* orbital.js:15
    criticalSatellites,   \* orbital.js:16
    isInitialized,        \* app.js:11
    initPhase,            \* where App.init and its loadAllData callback stand
    pending,              \* data-loader.js:113, the count of files not yet answered
    loads,                \* history variable: the fetches in flight, how often
                          \* each callback was invoked and with what
    results,              \* data-loader.js loadAllData: records parsed per file
    rafPending,           \* animate calls requested and not yet made
    tickFaults,           \* history variable: the blocks that threw in the last frame
    playback,             \* part_004:11-14, the state of HistoricalMode and its timers
    uiTimers              \* part_005: the timers of the action panel still to fire

loadVars == <<playerSatellite, activeSatellites, debrisSatellites,
              criticalSatellites, isInitialized, initPhase, pending, loads, playback,
                   uiTimers, results,
              rafPending, tickFaults>>

vars == <<historicalScores, forceScore, lastThreats, playerPosition,
          debrisPositions, ret, returned, forceArg, ncalls, schedVars, loadVars>>

\* ------------------------------------------------------- JavaScript helpers
\* Math.round of a value given in halves: the nearest integer, ties towards +Infinity.
MathRound(x) ==
    IF x = NaN THEN NaN
    ELSE (2 * x + DANGER_WEIGHT_DEN) \div (2 * DANGER_WEIGHT_DEN)

MathMin(a, b) == IF a = NaN \/ b = NaN THEN NaN ELSE IF a < b THEN a ELSE b

MathMax(a, b) == IF a = NaN \/ b = NaN THEN NaN ELSE IF a > b THEN a ELSE b

isFinite(x) == x # NaN

\* What an operation yields when it raises instead of returning.
TypeError == -3000000

\* THREE.Vector3.distanceTo on the line, times 1000: the distance in km.
\* Reading the coordinates of null raises.
distanceTo(a, b) ==
    IF b = NULL THEN TypeError
    ELSE IF a = NaN \/ b = NaN THEN NaN
    ELSE IF a >= b THEN a - b ELSE b - a

\* ------------------------------------------------------------ the engine
\* Variants of pushHistory with a plausible slip each.
\* The shift is forgotten.
pushHistoryNoShift(hist, sample) == Append(hist, sample)

\* The capacity test is >= instead of >.
pushHistoryOffByOne(hist, sample) ==
    LET pushed == Append(hist, sample)
    IN  IF Len(pushed) >= MAX_HISTORY THEN Tail(pushed) ELSE pushed

\* pop() instead of shift(): the newest sample is dropped on overflow.
pushHistoryPop(hist, sample) ==
    LET pushed == Append(hist, sample)
    IN  IF Len(pushed) > MAX_HISTORY THEN SubSeq(pushed, 1, Len(pushed) - 1) ELSE pushed

\* push, then shift when the length exceeds MAX_HISTORY (lines 46-49, 56-59, 108-111)
pushHistory(hist, sample) ==
    LET pushed == Append(hist, sample)
    IN  IF Len(pushed) > MAX_HISTORY THEN Tail(pushed) ELSE pushed

\* Variants of scoreDebris with a plausible slip each.
\* The critical test is <= instead of <.
scoreDebrisCriticalInclusive(acc, index, distanceKm) ==
    IF ~isFinite(distanceKm) THEN acc
    ELSE IF distanceKm < DANGER_RADIUS THEN
        LET proximityThreat == (DANGER_RADIUS - distanceKm) * DANGER_WEIGHT_NUM
            bonus ==
                IF distanceKm <= CRITICAL_RADIUS
                THEN CRITICAL_BONUS * DANGER_WEIGHT_DEN
                     + (IF distanceKm < EXTREME_RADIUS
                        THEN EXTREME_BONUS * DANGER_WEIGHT_DEN ELSE 0)
                ELSE 0
        IN  [threatScore |-> acc.threatScore + proximityThreat + bonus,
             threats |-> Append(acc.threats,
                                [index |-> index, distance |-> distanceKm,
                                 threat |-> proximityThreat])]
    ELSE acc

\* The extreme bonus is never added.
scoreDebrisNoExtreme(acc, index, distanceKm) ==
    IF ~isFinite(distanceKm) THEN acc
    ELSE IF distanceKm < DANGER_RADIUS THEN
        LET proximityThreat == (DANGER_RADIUS - distanceKm) * DANGER_WEIGHT_NUM
            bonus ==
                IF distanceKm < CRITICAL_RADIUS
                THEN CRITICAL_BONUS * DANGER_WEIGHT_DEN
                ELSE 0
        IN  [threatScore |-> acc.threatScore + proximityThreat + bonus,
             threats |-> Append(acc.threats,
                                [index |-> index, distance |-> distanceKm,
                                 threat |-> proximityThreat])]
    ELSE acc

\* DANGER_WEIGHT is not applied to the proximity threat.
scoreDebrisNoWeight(acc, index, distanceKm) ==
    IF ~isFinite(distanceKm) THEN acc
    ELSE IF distanceKm < DANGER_RADIUS THEN
        LET proximityThreat == (DANGER_RADIUS - distanceKm) * DANGER_WEIGHT_DEN
            bonus ==
                IF distanceKm < CRITICAL_RADIUS
                THEN CRITICAL_BONUS * DANGER_WEIGHT_DEN
                     + (IF distanceKm < EXTREME_RADIUS
                        THEN EXTREME_BONUS * DANGER_WEIGHT_DEN ELSE 0)
                ELSE 0
        IN  [threatScore |-> acc.threatScore + proximityThreat + bonus,
             threats |-> Append(acc.threats,
                                [index |-> index, distance |-> distanceKm,
                                 threat |-> proximityThreat])]
    ELSE acc

\* The critical bonus is never added.
scoreDebrisNoCriticalBonus(acc, index, distanceKm) ==
    IF ~isFinite(distanceKm) THEN acc
    ELSE IF distanceKm < DANGER_RADIUS THEN
        LET proximityThreat == (DANGER_RADIUS - distanceKm) * DANGER_WEIGHT_NUM
            bonus ==
                IF distanceKm < EXTREME_RADIUS
                THEN EXTREME_BONUS * DANGER_WEIGHT_DEN ELSE 0
        IN  [threatScore |-> acc.threatScore + proximityThreat + bonus,
             threats |-> Append(acc.threats,
                                [index |-> index, distance |-> distanceKm,
                                 threat |-> proximityThreat])]
    ELSE acc

\* The body of the forEach callback for one debris object (lines 67-102).
\* acc.threatScore is in halves; threat of a recorded entry is in halves too.
scoreDebris(acc, index, distanceKm) ==
    IF ~isFinite(distanceKm) THEN acc
    ELSE IF distanceKm < DANGER_RADIUS THEN
        LET proximityThreat == (DANGER_RADIUS - distanceKm) * DANGER_WEIGHT_NUM
            bonus ==
                IF distanceKm < CRITICAL_RADIUS
                THEN CRITICAL_BONUS * DANGER_WEIGHT_DEN
                     + (IF distanceKm < EXTREME_RADIUS
                        THEN EXTREME_BONUS * DANGER_WEIGHT_DEN ELSE 0)
                ELSE 0
        IN  [threatScore |-> acc.threatScore + proximityThreat + bonus,
             threats |-> Append(acc.threats,
                                [index |-> index, distance |-> distanceKm,
                                 threat |-> proximityThreat])]
    ELSE acc

\* debrisPositions.forEach(...), in array order; index is 0-based as in the source.
RECURSIVE forEachDebris(_, _, _, _)
forEachDebris(player, debris, i, acc) ==
    IF i > Len(debris) THEN acc
    ELSE forEachDebris(player, debris, i + 1,
                       scoreDebris(acc, i - 1, distanceTo(player, debris[i])))

\* threats.sort((a, b) => a.distance - b.distance): a stable sort.
RECURSIVE insertThreat(_, _)
insertThreat(sorted, t) ==
    IF sorted = <<>> THEN <<t>>
    ELSE IF Head(sorted).distance <= t.distance
         THEN <<Head(sorted)>> \o insertThreat(Tail(sorted), t)
         ELSE <<t>> \o sorted

RECURSIVE sortThreats(_)
sortThreats(threats) ==
    IF threats = <<>> THEN <<>>
    ELSE insertThreat(sortThreats(SubSeq(threats, 1, Len(threats) - 1)),
                      threats[Len(threats)])

\* Variant of sliceThreats: slice(-5), the last five.
sliceThreatsLast(threats) ==
    SubSeq(threats, IF Len(threats) < 5 THEN 1 ELSE Len(threats) - 4, Len(threats))

\* threats.slice(0, 5)
sliceThreats(threats) ==
    SubSeq(threats, 1, IF Len(threats) < 5 THEN Len(threats) ELSE 5)

\* calculateScore as a function of the engine state and its two arguments:
\* the new history, the new closest-threat list and the returned value.
calculateScore(hist, force, threatsOld, player, debris) ==
    IF force # NULL THEN
        [historicalScores |-> pushHistory(hist, force),
         lastThreats |-> threatsOld,
         value |-> force]
    ELSE IF player = NULL \/ Len(debris) = 0 THEN
        [historicalScores |-> pushHistory(hist, 0),
         lastThreats |-> threatsOld,
         value |-> 0]
    ELSE IF \E i \in 1..Len(debris) : distanceTo(player, debris[i]) = TypeError THEN
        \* the forEach callback raises at line 69: nothing is stored
        [historicalScores |-> hist,
         lastThreats |-> threatsOld,
         value |-> TypeError]
    ELSE
        LET acc == forEachDebris(player, debris, 1,
                                 [threatScore |-> 0, threats |-> <<>>])
            threatScore == MathMin(MathRound(acc.threatScore), 100)
        IN  [historicalScores |-> pushHistory(hist, threatScore),
             lastThreats |-> sliceThreats(sortThreats(acc.threats)),
             value |-> threatScore]

\* Variant of setForceScore: the rounded value is stored without the clamp.
setForceScoreNoClamp(score) ==
    IF score = NULL THEN NULL
    ELSE MathRound(score)

\* Variant of setForceScore: null is not tested first, so that it is rounded
\* and clamped like a number (Math.round(null) is 0).
setForceScoreRoundsNull(score) ==
    IF score = NULL THEN 0
    ELSE MathMin(MathMax(MathRound(score), 0), 100)

\* setForceScore: the value stored for an argument given in halves (or null, NaN).
setForceScore(score) ==
    IF score = NULL THEN NULL
    ELSE MathMin(MathMax(MathRound(score), 0), 100)

\* Variant of getScoreStatus: strict comparisons instead of >=.
getScoreStatusStrict(score) ==
    IF score > 86 THEN "CRITICAL"
    ELSE IF score > 61 THEN "WARNING"
    ELSE IF score > 31 THEN "ELEVATED"
    ELSE "NOMINAL"

getScoreStatus(score) ==
    IF score >= 86 THEN "CRITICAL"
    ELSE IF score >= 61 THEN "WARNING"
    ELSE IF score >= 31 THEN "ELEVATED"
    ELSE "NOMINAL"

getScoreColor(score) ==
    LET status == getScoreStatus(score)
    IN  CASE status = "CRITICAL" -> "critical"
          [] status = "WARNING" -> "warning"
          [] status = "ELEVATED" -> "elevated"
          [] OTHER -> "nominal"

\* getStatistics().current: historicalScores[length - 1] || 0 (line 380).
statisticsCurrent(hist) ==
    IF hist = <<>> THEN 0
    ELSE IF hist[Len(hist)] = NaN THEN 0
    ELSE hist[Len(hist)]

\* getClosestThreats (line 313): the stored list itself.
getClosestThreats(threats) == threats

\* getHistory: historicalScores.slice(), a copy with the same elements.
getHistory(hist) == [i \in 1..Len(hist) |-> hist[i]]

\* Variant of getThreatDescription: the radii are compared with <=.
getThreatDescriptionInclusive(threats) ==
    IF Len(threats) = 0
    THEN [level |-> "NONE", count |-> 0, distanceKm |-> NULL]
    ELSE LET closest == threats[1]
             level ==
                 IF closest.distance <= EXTREME_RADIUS THEN "EXTREME"
                 ELSE IF closest.distance <= CRITICAL_RADIUS THEN "CRITICAL"
                 ELSE IF closest.distance <= 50 THEN "WARNING"
                 ELSE "ELEVATED"
         IN  [level |-> level, count |-> Len(threats),
              distanceKm |-> closest.distance]

\* getThreatDescription (lines 352-370): which sentence is produced, with the
\* count and the closest distance it prints.
getThreatDescription(threats) ==
    IF Len(threats) = 0
    THEN [level |-> "NONE", count |-> 0, distanceKm |-> NULL]
    ELSE LET closest == threats[1]
             level ==
                 IF closest.distance < EXTREME_RADIUS THEN "EXTREME"
                 ELSE IF closest.distance < CRITICAL_RADIUS THEN "CRITICAL"
                 ELSE IF closest.distance < 50 THEN "WARNING"
                 ELSE "ELEVATED"
         IN  [level |-> level, count |-> Len(threats),
              distanceKm |-> closest.distance]

\* historicalScores.reduce((a, b) => a + b, 0)
RECURSIVE sumScores(_)
sumScores(hist) ==
    IF hist = <<>> THEN 0
    ELSE LET rest == sumScores(Tail(hist))
         IN  IF Head(hist) = NaN \/ rest = NaN THEN NaN ELSE Head(hist) + rest

\* Math.max(...historicalScores) of a non-empty history.
RECURSIVE maxScores(_)
maxScores(hist) ==
    IF Len(hist) = 1 THEN Head(hist)
    ELSE MathMax(Head(hist), maxScores(Tail(hist)))

\* avgScore.toFixed(1), in tenths. toFixed takes the nearest tenth and the
\* larger one on an exact tie.
averageTenths(hist) ==
    IF hist = <<>> THEN 0
    ELSE IF sumScores(hist) = NaN THEN NaN
    ELSE (sumScores(hist) * 20 + Len(hist)) \div (2 * Len(hist))

\* getStatistics (lines 379-395).
getStatistics(hist, threats) ==
    [current |-> statisticsCurrent(hist),
     average |-> averageTenths(hist),
     maximum |-> IF Len(hist) > 0 THEN maxScores(hist) ELSE 0,
     threatsInRange |-> Len(threats),
     historyLength |-> Len(hist)]

\* --------------------------------------------------------------- the loader
\* A text is the sequence of its lines; of a line the model keeps what the
\* parser tests: whether, once trimmed, it is empty ("blank"), starts with
\* "1 ", starts with "2 ", or is anything else ("name"). A line is identified
\* by its number in the text.
LineKinds == {"1", "2", "name", "blank"}

MaxLines == 4

\* The arguments of parseTLE: strings of up to MaxLines lines, and a value
\* that is not a string.
Texts ==
    {[isString |-> TRUE, lines |-> lines] :
        lines \in UNION {[1..n -> LineKinds] : n \in 0..MaxLines}}
    \cup {[isString |-> FALSE, lines |-> <<>>]}

\* The name given to a record that has no name line (data-loader.js:37).
UNKNOWN == 0

\* split('\n').map(trim).filter(line => line.length > 0) (lines 23-25).
trimmedLines(text) ==
    SelectSeq([i \in 1..Len(text) |-> [no |-> i, kind |-> text[i]]],
              LAMBDA line : line.kind # "blank")

\* Variant of parseLines: a line 1 without its line 2 ends the parse.
RECURSIVE parseLinesStopping(_, _, _)
parseLinesStopping(lines, i, satellites) ==
    IF i > Len(lines) THEN satellites
    ELSE IF lines[i].kind = "1" THEN
        IF i + 1 <= Len(lines) /\ lines[i + 1].kind = "2"
        THEN parseLinesStopping(lines, i + 2,
                 Append(satellites, [name |-> UNKNOWN, tle1 |-> lines[i].no,
                                     tle2 |-> lines[i + 1].no]))
        ELSE satellites
    ELSE parseLinesStopping(lines, i + 1, satellites)

\* The while loop of parseTLE (lines 30-55), i counted from 1.
RECURSIVE parseLines(_, _, _)
parseLines(lines, i, satellites) ==
    IF i > Len(lines) THEN satellites
    ELSE IF lines[i].kind = "1" THEN
        IF i + 1 <= Len(lines) /\ lines[i + 1].kind = "2"
        THEN LET name == IF i > 1 /\ lines[i - 1].kind \notin {"1", "2"}
                         THEN lines[i - 1].no ELSE UNKNOWN
             IN  parseLines(lines, i + 2,
                     Append(satellites, [name |-> name, tle1 |-> lines[i].no,
                                         tle2 |-> lines[i + 1].no]))
        ELSE parseLines(lines, i + 1, satellites)
    ELSE parseLines(lines, i + 1, satellites)

\* parseTLE (lines 17-59).
parseTLE(tleText) ==
    IF ~tleText.isString THEN <<>>
    ELSE IF tleText.lines = <<>> THEN <<>>
    ELSE parseLines(trimmedLines(tleText.lines), 1, <<>>)

\* One forEach of initSatellites (orbital.js:40-52): the records whose satrec
\* has error 0, in order; a list that is missing or not an array is passed
\* over.
storeAccepted(list) ==
    IF ~list.isArray THEN <<>>
    ELSE LET accepted == SelectSeq(list.records, LAMBDA tle : tle.error = 0)
         IN  [i \in 1..Len(accepted) |-> accepted[i].id]

\* initSatellites (orbital.js:31-99): the three stores, emptied and refilled,
\* and the counts returned.
initSatellites(tleData) ==
    LET active == storeAccepted(tleData.active)
        debris == storeAccepted(tleData.debris)
        critical == storeAccepted(tleData.critical)
    IN  [active |-> active, debris |-> debris, critical |-> critical,
         counts |-> [active |-> Len(active), debris |-> Len(debris),
                     critical |-> Len(critical)]]

\* ----------------------------------------------------------- TLE validation
\* A pasted line: its kind as for parseTLE and its length once trimmed (a
\* blank line has length 0).
InputLines ==
    {[kind |-> "blank", length |-> 0]}
    \cup [kind : {"1", "2", "name"}, length : {68, 69}]

InputTexts == UNION {[1..n -> InputLines] : n \in 0..MaxLines}

\* The default name (data-loader.js:202) and the satellite of a rejection.
USER_SATELLITE == 0

NoSatellite == [name |-> NULL, tle1 |-> NULL, tle2 |-> NULL]

rejected(error) == [valid |-> FALSE, satellite |-> NoSatellite, error |-> error]

\* split('\n').map(trim).filter(line => line.length > 0) (lines 159-161),
\* each line with its number in the input.
inputLines(inputText) ==
    SelectSeq([i \in 1..Len(inputText) |->
                  [no |-> i, kind |-> inputText[i].kind,
                   length |-> inputText[i].length]],
              LAMBDA line : line.length > 0)

\* lines.findIndex(line => line.startsWith('1 ')), counted from 1; 0 for -1.
findLine1(lines) ==
    IF \E i \in 1..Len(lines) : lines[i].kind = "1"
    THEN CHOOSE i \in 1..Len(lines) :
            /\ lines[i].kind = "1"
            /\ \A j \in 1..(i - 1) : lines[j].kind # "1"
    ELSE 0

\* Variant of validateTLEInput without the length test of line 2.
validateTLEInputLine1Only(inputText) ==
    LET lines == inputLines(inputText)
        line1Index == findLine1(lines)
    IN  IF Len(lines) < 2 \/ line1Index = 0 \/ line1Index + 1 > Len(lines)
        THEN rejected("TLE data must contain at least 2 lines")
        ELSE IF lines[line1Index + 1].kind # "2" \/ lines[line1Index].length < 69
        THEN rejected("TLE Line 2 is invalid")
        ELSE [valid |-> TRUE,
              satellite |-> [name |-> USER_SATELLITE, tle1 |-> lines[line1Index].no,
                             tle2 |-> lines[line1Index + 1].no],
              error |-> "null"]

\* validateTLEInput (lines 149-237) on a string; error "null" is null.
validateTLEInput(inputText) ==
    LET lines == inputLines(inputText)
        line1Index == findLine1(lines)
    IN  IF inputText = <<>> \/ Len(lines) = 0
        THEN rejected("Please paste TLE data into the input field.")
        ELSE IF Len(lines) < 2
        THEN rejected("TLE data must contain at least 2 lines")
        ELSE IF line1Index = 0
        THEN rejected("TLE Line 1 not found")
        ELSE IF line1Index + 1 > Len(lines)
        THEN rejected("TLE Line 2 is missing")
        ELSE IF lines[line1Index + 1].kind # "2"
        THEN rejected("TLE Line 2 is invalid")
        ELSE IF lines[line1Index].length < 69
        THEN rejected("TLE Line 1 is too short")
        ELSE IF lines[line1Index + 1].length < 69
        THEN rejected("TLE Line 2 is too short")
        ELSE [valid |-> TRUE,
              satellite |->
                  [name |-> IF line1Index > 1 THEN lines[line1Index - 1].no
                            ELSE USER_SATELLITE,
                   tle1 |-> lines[line1Index].no,
                   tle2 |-> lines[line1Index + 1].no],
              error |-> "null"]

\* ------------------------------------------------- the scene conversion
\* Component values that are no finite number: undefined (a missing
\* component), a string, and the two infinities (NaN is defined above).
Undefined == -4000000

NotNumber == -5000000

PosInfinity == 4000000

NegInfinity == -6000000

SCALE_FACTOR == 1000

\* Scene coordinates are kept in ten-thousandths of a scene unit.
PerUnit == 10000

isNumber(v) == v \notin {Undefined, NotNumber}

isNaN(v) == v = NaN

isFiniteNumber(v) == v \notin {NaN, PosInfinity, NegInfinity}

\* The value of eciToScenePosition that is null.
NullVector == [isNull |-> TRUE, x |-> 0, y |-> 0, z |-> 0]

\* v / SCALE_FACTOR, in ten-thousandths.
toSceneUnits(v) == (v * PerUnit) \div SCALE_FACTOR

\* Variant of eciToSceneVector: axes kept as they are.
eciToSceneVectorUnswapped(eciPosition, threeLoaded) ==
    IF ~eciPosition.present THEN NullVector
    ELSE IF \E v \in {eciPosition.x, eciPosition.y, eciPosition.z} :
               ~isNumber(v) \/ isNaN(v) \/ ~isFiniteNumber(v)
    THEN NullVector
    ELSE [isNull |-> FALSE, x |-> toSceneUnits(eciPosition.x),
          y |-> toSceneUnits(eciPosition.y), z |-> toSceneUnits(eciPosition.z)]

\* eciToScenePosition (orbital.js:169-224) on a position given with its three
\* components; eciPosition.present is FALSE for a null or undefined argument,
\* threeLoaded is typeof THREE !== 'undefined'.
eciToSceneVector(eciPosition, threeLoaded) ==
    IF ~eciPosition.present THEN NullVector
    ELSE IF ~isNumber(eciPosition.x) \/ ~isNumber(eciPosition.y)
            \/ ~isNumber(eciPosition.z)
    THEN NullVector
    ELSE IF isNaN(eciPosition.x) \/ isNaN(eciPosition.y) \/ isNaN(eciPosition.z)
    THEN NullVector
    ELSE IF ~isFiniteNumber(eciPosition.x) \/ ~isFiniteNumber(eciPosition.y)
            \/ ~isFiniteNumber(eciPosition.z)
    THEN NullVector
    ELSE IF ~threeLoaded THEN NullVector
    ELSE LET x == toSceneUnits(eciPosition.x)
             y == toSceneUnits(eciPosition.z)
             z == toSceneUnits(-eciPosition.y)
         IN  IF isNaN(x) \/ isNaN(y) \/ isNaN(z) THEN NullVector
             ELSE [isNull |-> FALSE, x |-> x, y |-> y, z |-> z]

\* ---------------------------------------------------------- the propagator
MAX_ACTIVE_RENDER == 500

\* What satellite.propagate yields for one object at one date is an input: a
\* position on the line in km, NaN for a position with a non-number in it, or
\* NULL when the library reports an error or raises.
\* propagate (orbital.js:142-159): the position and velocity, or null.
propagate(outcome) == outcome

\* eciToScenePosition (orbital.js:169-212): null for a missing or non-finite
\* position.
eciToScenePosition(eciPosition) ==
    IF eciPosition = NULL \/ eciPosition = NaN THEN NULL
    ELSE eciPosition

\* getPlayerPosition (orbital.js:216-226)
getPlayerPosition(sat, outcome) ==
    IF sat = NULL THEN NULL
    ELSE IF propagate(outcome) = NULL THEN NULL
    ELSE eciToScenePosition(propagate(outcome))

\* The loop body shared by the three list functions: if (pv) push(scenePos).
pushPosition(positions, outcome) ==
    IF propagate(outcome) # NULL
    THEN Append(positions, eciToScenePosition(propagate(outcome)))
    ELSE positions

RECURSIVE collectPositions(_, _, _, _)
collectPositions(outcomes, i, limit, positions) ==
    IF i > limit THEN positions
    ELSE collectPositions(outcomes, i + 1, limit, pushPosition(positions, outcomes[i]))

\* getActiveSatellitePositions (orbital.js:272-287), outcomes[i] being what
\* propagate yields for the i-th stored object.
getActiveSatellitePositions(outcomes) ==
    collectPositions(outcomes, 1,
                     IF Len(outcomes) < MAX_ACTIVE_RENDER THEN Len(outcomes)
                     ELSE MAX_ACTIVE_RENDER, <<>>)

\* getDebrisPositions (orbital.js:297-310)
getDebrisPositions(outcomes) == collectPositions(outcomes, 1, Len(outcomes), <<>>)

\* getCriticalDebrisPositions (orbital.js:320-333)
getCriticalDebrisPositions(outcomes) == collectPositions(outcomes, 1, Len(outcomes), <<>>)

\* ----------------------------------------------------------- the scheduler
\* Date.now() when startAnimationLoop runs, in ms (any value above every interval).
WallStart == 1000

\* setTimeMultiplier: Math.max(0.1, Math.min(multiplier, 100.0)), in hundredths.
setTimeMultiplier(multiplier) == MathMax(10, MathMin(multiplier, 10000))

\* new Date(currentDate.getTime() + deltaTime * 1000 * timeMultiplier):
\* a Date keeps an integer number of ms, the fraction of the sum is cut off.
advanceDate(date, elapsedMs, multiplier) ==
    IF date = NaN \/ multiplier = NaN THEN NaN
    ELSE date + (elapsedMs * multiplier) \div 100

\* Variant of isDue: >= instead of >.
isDueInclusive(nowMs, last, interval) == nowMs - last >= interval

\* now - last > INTERVAL
isDue(nowMs, last, interval) == nowMs - last > interval

\* The conditions of the five blocks of animate() (lines 302-329).
runPlayer(running) == running

runDebris(running, nowMs, last) == running /\ isDue(nowMs, last, DEBRIS_UPDATE_INTERVAL)

runActiveSat(nowMs, last) == isDue(nowMs, last, ACTIVE_SAT_INTERVAL)

\* Variant of runCTS: the running flag is not tested.
runCTSUngated(running, nowMs, last) == isDue(nowMs, last, CTS_UPDATE_INTERVAL)

runCTS(running, nowMs, last) == running /\ isDue(nowMs, last, CTS_UPDATE_INTERVAL)

\* Variant of runUI: the running flag is not tested.
runUIUngated(running, nowMs, last) == isDue(nowMs, last, UI_UPDATE_INTERVAL)

runUI(running, nowMs, last) == running /\ isDue(nowMs, last, UI_UPDATE_INTERVAL)

\* A frame works on a record s of what it may change; c holds what it reads:
\* c.running, c.now (wall clock), c.date (virtual time after the advance),
\* c.oldDate (before it), c.force, c.player and c.debris (the propagator's
\* answers at c.date), c.faults (the blocks in which something raises in this
\* frame, "render" standing for HistoricalDebris.animate and SceneManager.render).
logged(s, cat, at) == [s EXCEPT !.log = Append(@, [cat |-> cat, at |-> at])]

\* Variant of updatePlayer: the position is computed at the time before the advance.
updatePlayerStale(c, s) == logged(s, "player", c.oldDate)

\* Variant of blockReached: an exception raised in a block leaves animate's
\* try body, so that the blocks after it are not reached.
blockReachedUncaught(faults, cat) ==
    CASE cat = "player" -> TRUE
      [] cat = "debris" -> faults \cap {"player"} = {}
      [] cat = "active" -> faults \cap {"player", "debris"} = {}
      [] cat = "cts" -> faults \cap {"player", "debris", "active"} = {}
      [] cat = "ui" -> faults \cap {"player", "debris", "active", "cts"} = {}

\* Each update function wraps its whole body in try/catch (lines 354-363,
\* 373-381, 391-399, 409-418, 428-452): whatever raised in the blocks before,
\* the frame goes on to the next block.
blockReached(faults, cat) == TRUE

\* updatePlayer: getPlayerPosition(currentDate) (lines 353-364)
updatePlayer(c, s) == logged(s, "player", c.date)

\* updateDebris (lines 372-382)
updateDebris(c, s) == logged(s, "debris", c.date)

\* updateActiveSatellites (lines 390-400)
updateActiveSatellites(c, s) == logged(s, "active", c.date)

\* updateCTSScore (lines 408-419): calculateScore is called only with a player
\* position and a non-empty debris list.
updateCTSScore(c, s) ==
    IF "cts" \in c.faults THEN logged(s, "cts", c.date)
    ELSE IF c.player # NULL /\ Len(c.debris) > 0
    THEN LET out == calculateScore(s.hist, c.force, s.threats, c.player, c.debris)
         IN  [logged(s, "cts", c.date) EXCEPT
                 !.hist = out.historicalScores,
                 !.threats = out.lastThreats,
                 !.returned = IF out.value = TypeError THEN @
                              ELSE Append(@, out.value),
                 !.ncalls = @ + 1]
    ELSE logged(s, "cts", c.date)

\* updateUI (lines 427-434): the display gets getStatistics().current.
updateUI(c, s) ==
    IF "ui" \in c.faults THEN logged(s, "ui", c.date)
    ELSE [logged(s, "ui", c.date) EXCEPT !.display = statisticsCurrent(s.hist)]

\* One block of animate(): its condition, its update, its stamp.
runCategory(c, s, cat) ==
    IF ~blockReached(c.faults, cat) THEN s ELSE
    CASE cat = "player" ->
            IF runPlayer(c.running) THEN updatePlayer(c, s) ELSE s
      [] cat = "debris" ->
            IF runDebris(c.running, c.now, s.lastDebrisUpdate)
            THEN [updateDebris(c, s) EXCEPT !.lastDebrisUpdate = c.now] ELSE s
      [] cat = "active" ->
            IF runActiveSat(c.now, s.lastActiveSatUpdate)
            THEN [updateActiveSatellites(c, s) EXCEPT !.lastActiveSatUpdate = c.now] ELSE s
      [] cat = "cts" ->
            IF runCTS(c.running, c.now, s.lastCTSUpdate)
            THEN [updateCTSScore(c, s) EXCEPT !.lastCTSUpdate = c.now] ELSE s
      [] cat = "ui" ->
            IF runUI(c.running, c.now, s.lastUIUpdate)
            THEN [updateUI(c, s) EXCEPT !.lastUIUpdate = c.now] ELSE s

\* Variant of animateOrder: the player block is moved to the end of the frame.
animateOrderPlayerLast == <<"debris", "active", "cts", "ui", "player">>

\* The order of the blocks in animate().
animateOrder == <<"player", "debris", "active", "cts", "ui">>

RECURSIVE runBlocks(_, _, _, _)
runBlocks(c, s, order, i) ==
    IF i > Len(order) THEN s
    ELSE runBlocks(c, runCategory(c, s, order[i]), order, i + 1)

\* ------------------------------------------------------------------ inputs
\* Coordinates (km along the line) of the player and of debris objects.
PlayerPositions == {NULL, 0}

DebrisCoordinates == {3, 5, 9, 10, 50, 99, 100, NaN}

DebrisLists == UNION {[1..n -> DebrisCoordinates] : n \in 0..MaxDebris}

\* The debris lists the engine's caller alternates between in Spec.
SceneDebris == {<<>>, <<50>>, <<9, 150>>}

\* Arguments of setForceScore, in halves: null, NaN, -5, 42.5, 95, 150.
ForceInputs == {NULL, NaN, -10, 85, 190, 300}

ScoreInputs == 0..100

\* Wall-clock ms between two frames in SpecSched: at, just above and far above
\* the 100 ms intervals.
TickDeltas == {100, 101, 501}

\* Wall-clock ms between two frames in SpecClock: none, one 60 Hz frame, a long one.
ClockDeltas == {0, 16, 101}

\* The debris lists the propagator answers with in SpecSched.
SchedDebris == {<<>>, <<50>>}

\* Arguments of setForceScore in SpecSched, in halves: null and 95.
SchedForceInputs == {NULL, 190}

\* Element sets handed to twoline2satrec: an identity and the error code of
\* the satrec it yields (0: accepted), TypeError when the call raises.
TLERecords == [id : 1..3, error : {0, 1, TypeError}]

\* What satellite.propagate yields for one object: an error, a position with
\* a non-number, positions 50 and 150 km from the player.
PropagateOutcomes == {NULL, NaN, 50, 150}

\* The stores initSatellites may have left: up to MaxDebris records.
Stores == {[i \in 1..n |-> i] : n \in 0..MaxDebris}

\* Debris coordinates in SpecThreats, and the lists made of them: more objects
\* than the five the threat list keeps.
ThreatCoordinates == {3, 50, 99, 100, NaN}

ThreatLists == [1..(MaxDebris + 3) -> ThreatCoordinates]

\* The blocks in which something raises in one frame, in SpecFaults.
FaultSets == {{}, {"player"}, {"debris", "ui"}, {"active"}, {"cts"}, {"render"}}

\* Wall-clock ms between two frames in SpecFaults.
FaultDeltas == {101, 501}

\* Arguments of setTimeMultiplier in SpecSession: 1x and 10x (part_005:636, 646).
SessionMultipliers == {100, 1000}

\* Wall-clock ms between two frames in SpecSession.
SessionDeltas == {16, 101}

\* Arguments of setTimeMultiplier, in hundredths: NaN, 0.05, 0.1, 10, 500.
MultiplierInputs == {NaN, 5, 10, 1000, 50000}

\* ----------------------------------------------------------------- states
Zeros(n) == [i \in 1..n |-> 0]

\* The engine as constructed (lines 25-31), or after MAX_HISTORY - 1 calls on the
\* invalid-input path (each of which returned 0 and pushed 0).
InitEngine ==
    /\ \E n \in {0, MAX_HISTORY - 1} :
          /\ historicalScores = Zeros(n)
          /\ returned = Zeros(n)
    /\ forceScore = NULL
    /\ lastThreats = <<>>
    /\ forceArg = NULL
    /\ ncalls = 0
    /\ ret = [op |-> "init", arg |-> NULL, value |-> NULL]

DataFiles == {"active", "debris", "critical"}

\* No file was requested yet.
NoLoads ==
    [inFlight |-> {}, failed |-> {}, calls |-> [key \in DataFiles |-> 0],
     delivered |-> 0, deliveredError |-> FALSE]

\* loadAllData has answered: every file callback ran once, the callback of
\* loadAllData ran once, without an error.
LoadsDone ==
    [inFlight |-> {}, failed |-> {}, calls |-> [key \in DataFiles |-> 1],
     delivered |-> 1, deliveredError |-> FALSE]

\* ------------------------------------------------------- historical mode
\* The first and the last year of the timeline (part_004:11, 106).
MinYear == 1980
MaxYear == 2025

\* The speeds of the speed buttons: Math.pow(2, index) (part_004:73).
PlaybackSpeeds == {1, 2, 4}

\* The most interval timers the model lets HistoricalMode create, and the most
\* transitions to live mode it follows.
MaxTimers == 3
MaxTransitions == 2

\* HistoricalMode when its script has run (part_004:11-14): timers are the
\* interval timers created and not cleared, each with the speed its period was
\* computed from, nextTimer is the id setInterval hands out next, transitions
\* counts the calls of transitionToLiveMode.
PlaybackLoaded ==
    [currentYear |-> MinYear, isPlaying |-> FALSE, animationInterval |-> NULL,
     playbackSpeed |-> 1, timers |-> {}, nextTimer |-> 1, transitions |-> 0]

\* The timers of the action panel before any action was confirmed: pending are
\* the timers waiting to fire, seq counts the times a timer was armed, actions
\* the actions confirmed; cleared are the actions whose last timeout has reset
\* the override, late those of which a ramp step wrote the override after that.
NoTimers ==
    [pending |-> {}, seq |-> 0, actions |-> 0, cleared |-> {}, late |-> {}]

\* The scheduler when startAnimationLoop has set lastUpdateTime and is about to
\* call animate() for the first time (app.js:10-23, 277).
InitClock ==
    /\ isRunning = FALSE
    /\ currentDate = WallStart
    /\ lastUpdateTime = WallStart
    /\ timeMultiplier = 100
    /\ frameCount = 0
    /\ lastDebrisUpdate = 0
    /\ lastActiveSatUpdate = 0
    /\ lastCTSUpdate = 0
    /\ lastUIUpdate = 0
    /\ ctsDisplay = NULL
    /\ tickLog = <<>>

\* The loader at that moment: one debris record was delivered and stored, no
\* player is set, the first animate call is due.
InitLoaded ==
    /\ playerSatellite = NULL
    /\ activeSatellites = <<>>
    /\ debrisSatellites = <<1>>
    /\ criticalSatellites = <<>>
    /\ isInitialized = TRUE
    /\ initPhase = "started"
    /\ pending = 0
    /\ loads = LoadsDone
    /\ playback = PlaybackLoaded
    /\ uiTimers = NoTimers
    /\ results = [active |-> <<>>, debris |-> <<[id |-> 1, error |-> 0]>>,
                  critical |-> <<>>]
    /\ rafPending = 1
    /\ tickFaults = {}

InitScheduler == InitClock /\ InitLoaded

\* The loader before App.init is called (app.js:9-23, orbital.js:14-17): the
\* stores are empty and no animate call has been requested.
InitConstructed ==
    /\ playerSatellite = NULL
    /\ activeSatellites = <<>>
    /\ debrisSatellites = <<>>
    /\ criticalSatellites = <<>>
    /\ isInitialized = FALSE
    /\ initPhase = "constructed"
    /\ pending = 0
    /\ loads = NoLoads
    /\ playback = PlaybackLoaded
    /\ uiTimers = NoTimers
    /\ results = [active |-> <<>>, debris |-> <<>>, critical |-> <<>>]
    /\ rafPending = 0
    /\ tickFaults = {}

Init ==
    /\ InitEngine
    /\ InitScheduler
    /\ playerPosition \in PlayerPositions
    /\ debrisPositions \in SceneDebris

\* ---------------------------------------------------------------- actions
CalculateScore ==
    /\ ncalls < MaxCalls
    /\ LET out == calculateScore(historicalScores, forceScore, lastThreats,
                                 playerPosition, debrisPositions)
       IN  /\ historicalScores' = out.historicalScores
           /\ lastThreats' = out.lastThreats
           /\ ret' = [op |-> "calculateScore", arg |-> NULL, value |-> out.value]
           /\ returned' = IF out.value = TypeError THEN returned
                          ELSE Append(returned, out.value)
    /\ ncalls' = ncalls + 1
    /\ UNCHANGED <<forceScore, playerPosition, debrisPositions, forceArg>>
    /\ UNCHANGED schedVars
    /\ UNCHANGED loadVars

SetForceScore(score) ==
    /\ forceScore' = setForceScore(score)
    /\ forceArg' = score
    /\ ret' = [op |-> "setForceScore", arg |-> score, value |-> NULL]
    /\ UNCHANGED <<historicalScores, lastThreats, playerPosition,
                   debrisPositions, returned, ncalls>>
    /\ UNCHANGED schedVars
    /\ UNCHANGED loadVars

ResetHistory ==
    /\ historicalScores' = <<>>
    /\ lastThreats' = <<>>
    /\ returned' = <<>>
    /\ ret' = [op |-> "resetHistory", arg |-> NULL, value |-> NULL]
    /\ UNCHANGED <<forceScore, playerPosition, debrisPositions, forceArg, ncalls>>
    /\ UNCHANGED schedVars
    /\ UNCHANGED loadVars

\* The caller obtains new positions for the next scoring call.
UpdatePositions(player, debris) ==
    /\ playerPosition' = player
    /\ debrisPositions' = debris
    /\ ret' = [op |-> "updatePositions", arg |-> NULL, value |-> NULL]
    /\ UNCHANGED <<historicalScores, forceScore, lastThreats, returned,
                   forceArg, ncalls>>
    /\ UNCHANGED schedVars
    /\ UNCHANGED loadVars

GetScoreStatus(score) ==
    /\ ret' = [op |-> "getScoreStatus", arg |-> score, value |-> getScoreStatus(score)]
    /\ UNCHANGED <<historicalScores, forceScore, lastThreats, playerPosition,
                   debrisPositions, returned, forceArg, ncalls>>
    /\ UNCHANGED schedVars
    /\ UNCHANGED loadVars

GetScoreColor(score) ==
    /\ ret' = [op |-> "getScoreColor", arg |-> score, value |-> getScoreColor(score)]
    /\ UNCHANGED <<historicalScores, forceScore, lastThreats, playerPosition,
                   debrisPositions, returned, forceArg, ncalls>>
    /\ UNCHANGED schedVars
    /\ UNCHANGED loadVars

Next ==
    \/ CalculateScore
    \/ \E score \in ForceInputs : SetForceScore(score)
    \/ ResetHistory
    \/ \E player \in PlayerPositions, debris \in SceneDebris :
          UpdatePositions(player, debris)

Spec == Init /\ [][Next]_vars

\* The scoring function alone: the positions are drawn once, no override.
InitScore ==
    /\ InitEngine
    /\ InitScheduler
    /\ playerPosition \in PlayerPositions
    /\ debrisPositions \in DebrisLists

NextScore == CalculateScore

SpecScore == InitScore /\ [][NextScore]_vars

\* The status bands alone.
InitBands ==
    /\ InitEngine
    /\ InitScheduler
    /\ playerPosition = NULL
    /\ debrisPositions = <<>>

NextBands ==
    \/ \E score \in ScoreInputs : GetScoreStatus(score)
    \/ \E score \in ScoreInputs : GetScoreColor(score)

SpecBands == InitBands /\ [][NextBands]_vars

\* ------------------------------------------------------ scheduler actions
\* animate() (lines 287-345): one frame, dt ms of wall-clock time after the
\* previous one; player and debris are what the propagator answers at the new
\* virtual time; faults are the blocks in which something raises.
AnimateWith(dt, player, debris, faults) ==
    /\ frameCount < MaxTicks
    /\ rafPending > 0
    /\ LET nowMs == lastUpdateTime + dt
           date == advanceDate(currentDate, nowMs - lastUpdateTime, timeMultiplier)
           c == [running |-> isRunning, now |-> nowMs, date |-> date,
                 oldDate |-> currentDate, force |-> forceScore,
                 player |-> player, debris |-> debris, faults |-> faults]
           s0 == [hist |-> historicalScores, threats |-> lastThreats,
                  returned |-> returned, ncalls |-> ncalls,
                  display |-> ctsDisplay, log |-> <<>>,
                  lastDebrisUpdate |-> lastDebrisUpdate,
                  lastActiveSatUpdate |-> lastActiveSatUpdate,
                  lastCTSUpdate |-> lastCTSUpdate,
                  lastUIUpdate |-> lastUIUpdate]
           s == runBlocks(c, s0, animateOrder, 1)
       IN  /\ lastUpdateTime' = nowMs
           /\ currentDate' = date
           /\ historicalScores' = s.hist
           /\ lastThreats' = s.threats
           /\ returned' = s.returned
           /\ ncalls' = s.ncalls
           /\ ctsDisplay' = s.display
           /\ tickLog' = s.log
           /\ lastDebrisUpdate' = s.lastDebrisUpdate
           /\ lastActiveSatUpdate' = s.lastActiveSatUpdate
           /\ lastCTSUpdate' = s.lastCTSUpdate
           /\ lastUIUpdate' = s.lastUIUpdate
    /\ frameCount' = frameCount + 1
    /\ playerPosition' = player
    /\ debrisPositions' = debris
    /\ ret' = [op |-> "animate", arg |-> dt, value |-> NULL]
    /\ rafPending' = (rafPending - 1) + 1   \* line 289, before the try
    /\ tickFaults' = faults
    /\ UNCHANGED <<forceScore, forceArg, isRunning, timeMultiplier>>
    /\ UNCHANGED <<playerSatellite, activeSatellites, debrisSatellites,
                   criticalSatellites, isInitialized, initPhase, pending, loads, playback,
                   uiTimers, results>>

\* A frame in which nothing raises.
Animate(dt, player, debris) == AnimateWith(dt, player, debris, {})

engineVars == <<historicalScores, forceScore, lastThreats, playerPosition,
                debrisPositions, returned, forceArg, ncalls>>

\* Variant of Resume: the throttle stamps are cleared too.
ResumeClearingStamps ==
    /\ isRunning' = TRUE
    /\ lastDebrisUpdate' = 0
    /\ lastCTSUpdate' = 0
    /\ lastUIUpdate' = 0
    /\ ret' = [op |-> "resume", arg |-> NULL, value |-> NULL]
    /\ UNCHANGED loadVars
    /\ UNCHANGED <<engineVars, currentDate, lastUpdateTime, timeMultiplier,
                   frameCount, lastActiveSatUpdate, ctsDisplay, tickLog>>

\* pause() (lines 549-554)
Pause ==
    /\ isRunning' = FALSE
    /\ ret' = [op |-> "pause", arg |-> NULL, value |-> NULL]
    /\ UNCHANGED loadVars
    /\ UNCHANGED <<engineVars, currentDate, lastUpdateTime, timeMultiplier,
                   frameCount, lastDebrisUpdate, lastActiveSatUpdate,
                   lastCTSUpdate, lastUIUpdate, ctsDisplay, tickLog>>

\* resume() (lines 559-564)
Resume ==
    /\ isRunning' = TRUE
    /\ ret' = [op |-> "resume", arg |-> NULL, value |-> NULL]
    /\ UNCHANGED loadVars
    /\ UNCHANGED <<engineVars, currentDate, lastUpdateTime, timeMultiplier,
                   frameCount, lastDebrisUpdate, lastActiveSatUpdate,
                   lastCTSUpdate, lastUIUpdate, ctsDisplay, tickLog>>

\* Variant of SetTimeMultiplier: the wall-clock sample is taken anew, so that
\* the time since the previous frame is dropped.
SetTimeMultiplierResampling(multiplier) ==
    /\ timeMultiplier' = setTimeMultiplier(multiplier)
    /\ lastUpdateTime' = lastUpdateTime + 16
    /\ ret' = [op |-> "setTimeMultiplier", arg |-> multiplier, value |-> NULL]
    /\ UNCHANGED loadVars
    /\ UNCHANGED <<engineVars, isRunning, currentDate,
                   frameCount, lastDebrisUpdate, lastActiveSatUpdate,
                   lastCTSUpdate, lastUIUpdate, ctsDisplay, tickLog>>

\* setTimeMultiplier(multiplier) (lines 532-541)
SetTimeMultiplier(multiplier) ==
    /\ timeMultiplier' = setTimeMultiplier(multiplier)
    /\ ret' = [op |-> "setTimeMultiplier", arg |-> multiplier, value |-> NULL]
    /\ UNCHANGED loadVars
    /\ UNCHANGED <<engineVars, isRunning, currentDate, lastUpdateTime,
                   frameCount, lastDebrisUpdate, lastActiveSatUpdate,
                   lastCTSUpdate, lastUIUpdate, ctsDisplay, tickLog>>

\* The scheduler with the engine: frames, pause and resume, the override.
InitSched ==
    /\ historicalScores = <<>>
    /\ returned = <<>>
    /\ forceScore = NULL
    /\ lastThreats = <<>>
    /\ forceArg = NULL
    /\ ncalls = 0
    /\ ret = [op |-> "init", arg |-> NULL, value |-> NULL]
    /\ playerPosition = NULL
    /\ debrisPositions = <<>>
    /\ InitScheduler

NextSched ==
    \/ \E dt \in TickDeltas, player \in PlayerPositions, debris \in SchedDebris :
          Animate(dt, player, debris)
    \/ Pause
    \/ Resume
    \/ \E score \in SchedForceInputs : SetForceScore(score)

SpecSched == InitSched /\ [][NextSched]_vars

\* The clock alone: frames, pause and resume, the time multiplier.
NextClock ==
    \/ \E dt \in ClockDeltas : Animate(dt, NULL, <<>>)
    \/ Pause
    \/ Resume
    \/ \E multiplier \in MultiplierInputs : SetTimeMultiplier(multiplier)

SpecClock == InitSched /\ [][NextClock]_vars

\* ------------------------------------------------------- session actions
\* Variant of initPlayerSatellite: the record is stored before its error
\* code is looked at.
initPlayerSatelliteUnchecked(stored, tle) == tle.id

\* initPlayerSatellite (orbital.js:109-131): the record is kept when its
\* element set is accepted.
initPlayerSatellite(stored, tle) == IF tle.error = 0 THEN tle.id ELSE stored

\* initializePlayerSatellite(tle) (app.js:206-267); sceneOk is FALSE when the
\* scene or the UI throws between initPlayerSatellite and isRunning = true.
InitializePlayerSatellite(tle, sceneOk) ==
    /\ playerSatellite' = initPlayerSatellite(playerSatellite, tle)
    /\ isRunning' = IF tle.error = 0 /\ sceneOk THEN TRUE ELSE isRunning
    /\ ret' = [op |-> "initializePlayerSatellite", arg |-> tle.id,
               value |-> (tle.error = 0 /\ sceneOk)]
    /\ UNCHANGED <<engineVars, currentDate, lastUpdateTime, timeMultiplier,
                   frameCount, lastDebrisUpdate, lastActiveSatUpdate,
                   lastCTSUpdate, lastUIUpdate, ctsDisplay, tickLog>>
    /\ UNCHANGED <<activeSatellites, debrisSatellites, criticalSatellites,
                   isInitialized, initPhase, pending, loads, playback,
                   uiTimers, results, rafPending,
                   tickFaults>>

\* returnToSetup (part_005:865-907); ok is the answer to the modal.
ReturnToSetup(ok) ==
    /\ isRunning' = IF ok THEN FALSE ELSE isRunning
    /\ historicalScores' = IF ok THEN <<>> ELSE historicalScores
    /\ lastThreats' = IF ok THEN <<>> ELSE lastThreats
    /\ returned' = IF ok THEN <<>> ELSE returned
    /\ forceScore' = IF ok THEN setForceScore(NULL) ELSE forceScore
    /\ forceArg' = IF ok THEN NULL ELSE forceArg
    /\ ret' = [op |-> "returnToSetup", arg |-> ok, value |-> NULL]
    /\ UNCHANGED <<playerPosition, debrisPositions, ncalls, currentDate,
                   lastUpdateTime, timeMultiplier, frameCount, lastDebrisUpdate,
                   lastActiveSatUpdate, lastCTSUpdate, lastUIUpdate, ctsDisplay,
                   tickLog>>
    /\ UNCHANGED loadVars

\* Sessions: frames, the multiplier, setting up a player, returning to setup.
NextSession ==
    \/ \E dt \in SessionDeltas :
          Animate(dt, getPlayerPosition(playerSatellite, 0), <<50>>)
    \/ \E multiplier \in SessionMultipliers : SetTimeMultiplier(multiplier)
    \/ \E tle \in TLERecords, sceneOk \in BOOLEAN :
          InitializePlayerSatellite(tle, sceneOk)
    \/ \E ok \in BOOLEAN : ReturnToSetup(ok)

SpecSession == InitSched /\ [][NextSession]_vars

\* ---------------------------------------------------- propagator actions
\* The four position functions read the stores and change nothing.
GetPlayerPosition(outcome) ==
    /\ ret' = [op |-> "getPlayerPosition", arg |-> <<outcome>>,
               value |-> <<getPlayerPosition(playerSatellite, outcome)>>]
    /\ UNCHANGED engineVars
    /\ UNCHANGED schedVars
    /\ UNCHANGED loadVars

GetDebrisPositions(outcomes) ==
    /\ ret' = [op |-> "getDebrisPositions", arg |-> outcomes,
               value |-> getDebrisPositions(outcomes)]
    /\ UNCHANGED engineVars
    /\ UNCHANGED schedVars
    /\ UNCHANGED loadVars

GetCriticalDebrisPositions(outcomes) ==
    /\ ret' = [op |-> "getCriticalDebrisPositions", arg |-> outcomes,
               value |-> getCriticalDebrisPositions(outcomes)]
    /\ UNCHANGED engineVars
    /\ UNCHANGED schedVars
    /\ UNCHANGED loadVars

GetActiveSatellitePositions(outcomes) ==
    /\ ret' = [op |-> "getActiveSatellitePositions", arg |-> outcomes,
               value |-> getActiveSatellitePositions(outcomes)]
    /\ UNCHANGED engineVars
    /\ UNCHANGED schedVars
    /\ UNCHANGED loadVars

\* The propagator: a player may be set, the stores are populated, positions
\* are asked for.
InitProp ==
    /\ historicalScores = <<>>
    /\ returned = <<>>
    /\ forceScore = NULL
    /\ lastThreats = <<>>
    /\ forceArg = NULL
    /\ ncalls = 0
    /\ ret = [op |-> "init", arg |-> NULL, value |-> NULL]
    /\ playerPosition = NULL
    /\ debrisPositions = <<>>
    /\ InitClock
    /\ playerSatellite \in {NULL, 1}
    /\ debrisSatellites \in Stores
    /\ activeSatellites = debrisSatellites
    /\ criticalSatellites = debrisSatellites
    /\ isInitialized = TRUE
    /\ initPhase = "started"
    /\ pending = 0
    /\ loads = LoadsDone
    /\ playback = PlaybackLoaded
    /\ uiTimers = NoTimers
    /\ results = [key \in {"active", "debris", "critical"} |->
                     [i \in 1..Len(debrisSatellites) |->
                         [id |-> debrisSatellites[i], error |-> 0]]]
    /\ rafPending = 1
    /\ tickFaults = {}

NextProp ==
    \/ \E outcome \in PropagateOutcomes : GetPlayerPosition(outcome)
    \/ \E outcomes \in [1..Len(debrisSatellites) -> PropagateOutcomes] :
          GetDebrisPositions(outcomes)
    \/ \E outcomes \in [1..Len(criticalSatellites) -> PropagateOutcomes] :
          GetCriticalDebrisPositions(outcomes)
    \/ \E outcomes \in [1..Len(activeSatellites) -> PropagateOutcomes] :
          GetActiveSatellitePositions(outcomes)

SpecProp == InitProp /\ [][NextProp]_vars

\* calculateScore on lists as the propagator returns them and as any caller
\* may pass them: entries may be null.
InitRaise ==
    /\ InitEngine
    /\ InitScheduler
    /\ playerPosition \in PlayerPositions
    /\ debrisPositions \in
          UNION {[1..n -> PropagateOutcomes] : n \in 0..MaxDebris}

NextRaise ==
    \/ CalculateScore
    \/ \E score \in SchedForceInputs : SetForceScore(score)

SpecRaise == InitRaise /\ [][NextRaise]_vars

\* Frames in which update functions raise.
AnimateFaulty ==
    \E dt \in FaultDeltas, faults \in FaultSets : AnimateWith(dt, 0, <<50>>, faults)

NextFaults ==
    \/ AnimateFaulty
    \/ Pause
    \/ Resume

SpecFaults == InitSched /\ [][NextFaults]_vars

\* One live call on a list longer than the threat list.
InitThreats ==
    /\ historicalScores = <<>>
    /\ returned = <<>>
    /\ forceScore = NULL
    /\ lastThreats = <<>>
    /\ forceArg = NULL
    /\ ncalls = 0
    /\ ret = [op |-> "init", arg |-> NULL, value |-> NULL]
    /\ playerPosition = 0
    /\ debrisPositions \in ThreatLists
    /\ InitScheduler

NextThreats == CalculateScore

SpecThreats == InitThreats /\ [][NextThreats]_vars

\* ---------------------------------------------------------- engine queries
GetThreatDescription ==
    /\ ret' = [op |-> "getThreatDescription", arg |-> NULL,
               value |-> getThreatDescription(lastThreats)]
    /\ UNCHANGED <<historicalScores, forceScore, lastThreats, playerPosition,
                   debrisPositions, returned, forceArg, ncalls>>
    /\ UNCHANGED schedVars
    /\ UNCHANGED loadVars

GetStatistics ==
    /\ ret' = [op |-> "getStatistics", arg |-> NULL,
               value |-> getStatistics(historicalScores, lastThreats)]
    /\ UNCHANGED <<historicalScores, forceScore, lastThreats, playerPosition,
                   debrisPositions, returned, forceArg, ncalls>>
    /\ UNCHANGED schedVars
    /\ UNCHANGED loadVars

GetClosestThreats ==
    /\ ret' = [op |-> "getClosestThreats", arg |-> NULL,
               value |-> getClosestThreats(lastThreats)]
    /\ UNCHANGED <<historicalScores, forceScore, lastThreats, playerPosition,
                   debrisPositions, returned, forceArg, ncalls>>
    /\ UNCHANGED schedVars
    /\ UNCHANGED loadVars

\* Variant of GetHistory: historicalScores.splice(0), which hands the elements
\* out and leaves the history empty.
GetHistorySplicing ==
    /\ ret' = [op |-> "getHistory", arg |-> NULL,
               value |-> getHistory(historicalScores)]
    /\ historicalScores' = <<>>
    /\ UNCHANGED <<forceScore, lastThreats, playerPosition,
                   debrisPositions, returned, forceArg, ncalls>>
    /\ UNCHANGED schedVars
    /\ UNCHANGED loadVars

GetHistory ==
    /\ ret' = [op |-> "getHistory", arg |-> NULL,
               value |-> getHistory(historicalScores)]
    /\ UNCHANGED <<historicalScores, forceScore, lastThreats, playerPosition,
                   debrisPositions, returned, forceArg, ncalls>>
    /\ UNCHANGED schedVars
    /\ UNCHANGED loadVars

\* Scores on both sides of each status threshold.
QueryScores == {0, 31, 61, 86}

\* Scenes with no, one and two objects in the danger zone (player at 0).
QueryDebris == {<<>>, <<3>>, <<50, 99>>}

InitQueries ==
    /\ historicalScores = <<>>
    /\ returned = <<>>
    /\ forceScore = NULL
    /\ lastThreats = <<>>
    /\ forceArg = NULL
    /\ ncalls = 0
    /\ ret = [op |-> "init", arg |-> NULL, value |-> NULL]
    /\ playerPosition = 0
    /\ debrisPositions = <<>>
    /\ InitScheduler

NextQueries ==
    \/ CalculateScore
    \/ \E score \in SchedForceInputs : SetForceScore(score)
    \/ \E debris \in QueryDebris : UpdatePositions(0, debris)
    \/ \E score \in QueryScores : GetScoreStatus(score)
    \/ \E score \in QueryScores : GetScoreColor(score)
    \/ GetThreatDescription
    \/ GetStatistics
    \/ GetClosestThreats
    \/ GetHistory

SpecQueries == InitQueries /\ [][NextQueries]_vars

\* ------------------------------------------------------------ ingestion
\* The error codes twoline2satrec yields for the records of one list.
BatchErrors == {<<>>, <<0>>, <<1>>, <<0, 1>>, <<1, 0>>, <<1, 1, 0>>}

\* The lists handed to initSatellites: records numbered in list order, or no
\* list at all.
Batches ==
    {[isArray |-> TRUE,
      records |-> [i \in 1..Len(errors) |-> [id |-> i, error |-> errors[i]]]] :
        errors \in BatchErrors}
    \cup {[isArray |-> FALSE, records |-> <<>>]}

\* parseTLE is called by loadTLEFile while the files load, which ends before
\* initSatellites is called.
ParseTLE(tleText) ==
    /\ ret.op # "initSatellites"
    /\ ret' = [op |-> "parseTLE", arg |-> tleText, value |-> parseTLE(tleText)]
    /\ UNCHANGED engineVars
    /\ UNCHANGED schedVars
    /\ UNCHANGED loadVars

InitSatellites(tleData) ==
    /\ LET out == initSatellites(tleData)
       IN  /\ activeSatellites' = out.active
           /\ debrisSatellites' = out.debris
           /\ criticalSatellites' = out.critical
           /\ ret' = [op |-> "initSatellites", arg |-> tleData,
                      value |-> out.counts]
    /\ UNCHANGED engineVars
    /\ UNCHANGED schedVars
    /\ UNCHANGED <<playerSatellite, isInitialized, initPhase, pending, loads, playback,
                   uiTimers, results,
                   rafPending, tickFaults>>

InitIngest ==
    /\ historicalScores = <<>>
    /\ returned = <<>>
    /\ forceScore = NULL
    /\ lastThreats = <<>>
    /\ forceArg = NULL
    /\ ncalls = 0
    /\ ret = [op |-> "init", arg |-> NULL, value |-> NULL]
    /\ InitClock
    /\ InitConstructed
    /\ playerPosition = 0
    /\ debrisPositions = <<>>

NextIngest ==
    \/ \E tleText \in Texts : ParseTLE(tleText)
    \/ \E active \in Batches, debris \in Batches, critical \in Batches :
          InitSatellites([active |-> active, debris |-> debris,
                          critical |-> critical])

SpecIngest == InitIngest /\ [][NextIngest]_vars

\* ----------------------------------------------------------- validation
\* The text in the input field when the user asks for it to be validated.
InitValidate ==
    /\ historicalScores = <<>>
    /\ returned = <<>>
    /\ forceScore = NULL
    /\ lastThreats = <<>>
    /\ forceArg = NULL
    /\ ncalls = 0
    /\ \E inputText \in InputTexts :
          ret = [op |-> "input", arg |-> inputText, value |-> rejected("null")]
    /\ playerPosition = 0
    /\ debrisPositions = <<>>
    /\ InitScheduler

ValidateTLEInput ==
    /\ ret.op = "input"
    /\ ret' = [op |-> "validateTLEInput", arg |-> ret.arg,
               value |-> validateTLEInput(ret.arg)]
    /\ UNCHANGED engineVars
    /\ UNCHANGED schedVars
    /\ UNCHANGED loadVars

NextValidate == ValidateTLEInput

SpecValidate == InitValidate /\ [][NextValidate]_vars

\* ------------------------------------------------------------ start-up
\* What one file yields once parsed: the error codes of its records.
FileErrors == {<<>>, <<0>>, <<1, 0>>}

\* Variant of AppInit: the animation loop is started as soon as loading has
\* been requested.
AppInitStartingLoop(sceneOk) ==
    /\ initPhase = "constructed"
    /\ initPhase' = IF sceneOk THEN "loading" ELSE "failed"
    /\ pending' = IF sceneOk THEN Cardinality(DataFiles) ELSE pending
    /\ loads' = IF sceneOk THEN [loads EXCEPT !.inFlight = DataFiles] ELSE loads
    /\ results' = [key \in DataFiles |-> <<>>]
    /\ rafPending' = IF sceneOk THEN 1 ELSE rafPending
    /\ ret' = [op |-> "App.init", arg |-> NULL, value |-> NULL]
    /\ UNCHANGED engineVars
    /\ UNCHANGED schedVars
    /\ UNCHANGED <<playerSatellite, activeSatellites, debrisSatellites,
                   criticalSatellites, isInitialized, tickFaults, playback, uiTimers>>

\* App.init (app.js:59-176), called once by the DOMContentLoaded handler
\* (app.js:674-686). sceneOk is what SceneManager.init() answers; when it is
\* true, loadAllData (data-loader.js:98-141) requests the three files.
AppInit(sceneOk) ==
    /\ initPhase = "constructed"
    /\ initPhase' = IF sceneOk THEN "loading" ELSE "failed"
    /\ pending' = IF sceneOk THEN Cardinality(DataFiles) ELSE pending
    /\ loads' = IF sceneOk THEN [loads EXCEPT !.inFlight = DataFiles] ELSE loads
    /\ results' = [key \in DataFiles |-> <<>>]
    /\ ret' = [op |-> "App.init", arg |-> NULL, value |-> NULL]
    /\ UNCHANGED engineVars
    /\ UNCHANGED schedVars
    /\ UNCHANGED <<playerSatellite, activeSatellites, debrisSatellites,
                   criticalSatellites, isInitialized, rafPending, tickFaults, playback, uiTimers>>

\* Variant of allAnswered: the callback is handed on after every file.
allAnsweredEach(count) == count >= 0

\* if (pending === 0) (data-loader.js:127)
allAnswered(count) == count = 0

\* The lists initSatellites receives from loadAllData: always arrays.
asTleData(res) == [key \in DataFiles |-> [isArray |-> TRUE, records |-> res[key]]]

\* One fetch of loadTLEFile settles (data-loader.js:69-88) and the callback
\* loadAllData gave for the file key runs (data-loader.js:116-139): fetched is
\* FALSE when the fetch failed or answered with an error status, so that the
\* callback gets the error, errors are the error codes of the records parsed
\* otherwise. callback(null, results) is the only call of loadAllData's
\* callback, so that deliveredError stays as it is. When the last file has answered,
\* the callback of App.init runs (app.js:100-154): initSatellites, then the UI
\* set-up, which raises when uiOk is FALSE, then isInitialized = true and
\* startAnimationLoop (app.js:275-279), whose call of animate is then due.
FileLoaded(key, fetched, errors, uiOk) ==
    /\ initPhase = "loading"
    /\ key \in loads.inFlight
    /\ LET satellites == [i \in 1..Len(errors) |-> [id |-> i, error |-> errors[i]]]
           res == IF fetched THEN [results EXCEPT ![key] = satellites] ELSE results
           last == allAnswered(pending - 1)
           out == initSatellites(asTleData(res))
       IN  /\ results' = res
           /\ pending' = pending - 1
           /\ loads' = [inFlight |-> loads.inFlight \ {key},
                        failed |-> IF fetched THEN loads.failed
                                   ELSE loads.failed \cup {key},
                        calls |-> [loads.calls EXCEPT ![key] = @ + 1],
                        delivered |-> IF last THEN loads.delivered + 1
                                      ELSE loads.delivered,
                        deliveredError |-> loads.deliveredError]
           /\ activeSatellites' = IF last THEN out.active ELSE activeSatellites
           /\ debrisSatellites' = IF last THEN out.debris ELSE debrisSatellites
           /\ criticalSatellites' =
                 IF last THEN out.critical ELSE criticalSatellites
           /\ isInitialized' = IF last /\ uiOk THEN TRUE ELSE isInitialized
           /\ initPhase' = IF ~last THEN initPhase
                           ELSE IF uiOk THEN "started" ELSE "failed"
           /\ lastUpdateTime' = IF last /\ uiOk THEN WallStart ELSE lastUpdateTime
           /\ rafPending' = IF last /\ uiOk THEN rafPending + 1 ELSE rafPending
           /\ ret' = [op |-> "fileLoaded", arg |-> NULL, value |-> NULL]
    /\ UNCHANGED engineVars
    /\ UNCHANGED <<isRunning, currentDate, timeMultiplier, frameCount,
                   lastDebrisUpdate, lastActiveSatUpdate, lastCTSUpdate,
                   lastUIUpdate, ctsDisplay, tickLog>>
    /\ UNCHANGED <<playerSatellite, tickFaults, playback, uiTimers>>

InitStartup ==
    /\ historicalScores = <<>>
    /\ returned = <<>>
    /\ forceScore = NULL
    /\ lastThreats = <<>>
    /\ forceArg = NULL
    /\ ncalls = 0
    /\ ret = [op |-> "init", arg |-> NULL, value |-> NULL]
    /\ playerPosition = 0
    /\ debrisPositions = <<>>
    /\ InitClock
    /\ InitConstructed

NextStartup ==
    \/ \E sceneOk \in BOOLEAN : AppInit(sceneOk)
    \/ \E key \in DataFiles, fetched \in BOOLEAN, errors \in FileErrors,
          uiOk \in BOOLEAN : FileLoaded(key, fetched, errors, uiOk)
    \/ \E dt \in ClockDeltas : Animate(dt, 0, <<50>>)

SpecStartup == InitStartup /\ [][NextStartup]_vars

\* ------------------------------------------------------ scene conversion
\* Components of an ECI position in km, and what can stand in their place.
EciComponents ==
    {Undefined, NotNumber, NaN, PosInfinity, NegInfinity, -7000, 0, 42164}

EciPositions ==
    [present : {TRUE}, x : EciComponents, y : EciComponents, z : EciComponents]
    \cup {[present |-> FALSE, x |-> Undefined, y |-> Undefined, z |-> Undefined]}

InitConvert ==
    /\ historicalScores = <<>>
    /\ returned = <<>>
    /\ forceScore = NULL
    /\ lastThreats = <<>>
    /\ forceArg = NULL
    /\ ncalls = 0
    /\ \E eciPosition \in EciPositions :
          ret = [op |-> "input", arg |-> eciPosition, value |-> NullVector]
    /\ playerPosition = 0
    /\ debrisPositions = <<>>
    /\ InitScheduler

\* The function is called from the frame loop, which runs only once
\* SceneManager.init has succeeded, that is with THREE loaded.
EciToScenePosition ==
    /\ ret.op = "input"
    /\ ret' = [op |-> "eciToScenePosition", arg |-> ret.arg,
               value |-> eciToSceneVector(ret.arg, TRUE)]
    /\ UNCHANGED engineVars
    /\ UNCHANGED schedVars
    /\ UNCHANGED loadVars

NextConvert == EciToScenePosition

SpecConvert == InitConvert /\ [][NextConvert]_vars

\* ------------------------------------------------------ pause and resume
\* The Space branch of handleKeyboardShortcuts (part_005:618-629), attached to
\* keydown by UIController.init; inInput is whether the event's target is a
\* textarea or an input.
KeyboardSpace(inInput) ==
    /\ isRunning' = IF inInput THEN isRunning ELSE ~isRunning
    /\ ret' = [op |-> "keyboardSpace", arg |-> NULL, value |-> NULL]
    /\ UNCHANGED loadVars
    /\ UNCHANGED <<engineVars, currentDate, lastUpdateTime, timeMultiplier,
                   frameCount, lastDebrisUpdate, lastActiveSatUpdate,
                   lastCTSUpdate, lastUIUpdate, ctsDisplay, tickLog>>

\* The loaded application before and after a player is set: frames, player
\* initialisation, pause, resume and the Space key.
NextPlayer ==
    \/ \E dt \in SessionDeltas :
          Animate(dt, getPlayerPosition(playerSatellite, 0), <<50>>)
    \/ \E tle \in TLERecords, sceneOk \in BOOLEAN :
          InitializePlayerSatellite(tle, sceneOk)
    \/ Pause
    \/ Resume
    \/ \E inInput \in BOOLEAN : KeyboardSpace(inInput)

SpecPlayer == InitSched /\ [][NextPlayer]_vars

\* ------------------------------------------------------ threat description
\* Scenes whose closest object is on either side of 5, 10 and 50 km, beyond
\* the danger zone, or absent (player at 0).
DescribeDebris ==
    {<<>>, <<4>>, <<99, 5>>, <<9>>, <<10, 150>>, <<49>>, <<99, 50>>, <<100>>}

InitDescribe ==
    /\ historicalScores = <<>>
    /\ returned = <<>>
    /\ forceScore = NULL
    /\ lastThreats = <<>>
    /\ forceArg = NULL
    /\ ncalls = 0
    /\ ret = [op |-> "init", arg |-> NULL, value |-> NULL]
    /\ playerPosition = 0
    /\ debrisPositions = <<>>
    /\ InitScheduler

NextDescribe ==
    \/ \E debris \in DescribeDebris : UpdatePositions(0, debris)
    \/ CalculateScore
    \/ GetThreatDescription

SpecDescribe == InitDescribe /\ [][NextDescribe]_vars

\* ------------------------------------------------------- timeline playback
\* startPlayback (part_004:100-125): the timer is created and its id stored,
\* whatever animationInterval held.
startPlayback(p) ==
    [p EXCEPT !.isPlaying = TRUE,
              !.animationInterval = p.nextTimer,
              !.timers = @ \cup {[id |-> p.nextTimer, speed |-> p.playbackSpeed]},
              !.nextTimer = @ + 1]

\* stopPlayback (part_004:127-139): clearInterval of the id stored, if any.
stopPlayback(p) ==
    [p EXCEPT !.isPlaying = FALSE,
              !.timers = {t \in @ : t.id # p.animationInterval},
              !.animationInterval = NULL]

\* transitionToLiveMode (part_004:272-322).
transitionToLiveMode(p) ==
    [stopPlayback(p) EXCEPT !.transitions = @ + 1]

\* togglePlayback (part_004:92-98)
togglePlayback(p) == IF p.isPlaying THEN stopPlayback(p) ELSE startPlayback(p)

\* onSliderChange (part_004:81-87); value is what parseInt makes of the slider.
onSliderChange(p, value) ==
    [(IF p.isPlaying THEN stopPlayback(p) ELSE p) EXCEPT !.currentYear = value]

\* setPlaybackSpeed (part_004:141-156)
setPlaybackSpeed(p, speed) ==
    LET q == [p EXCEPT !.playbackSpeed = speed]
    IN  IF q.isPlaying THEN startPlayback(stopPlayback(q)) ELSE q

\* Variant of intervalCallback: past the last year the playback is stopped and
\* nothing else is done.
intervalCallbackStopping(p) ==
    LET q == [p EXCEPT !.currentYear = @ + 1]
    IN  IF q.currentYear > MaxYear
        THEN stopPlayback([q EXCEPT !.currentYear = MaxYear])
        ELSE q

\* The callback startPlayback hands to setInterval (part_004:110-122).
intervalCallback(p) ==
    LET q == [p EXCEPT !.currentYear = @ + 1]
    IN  IF q.currentYear > MaxYear
        THEN transitionToLiveMode(stopPlayback([q EXCEPT !.currentYear = MaxYear]))
        ELSE q

\* A handler of HistoricalMode ran and left it as p.
PlaybackStep(op, p) ==
    /\ playback' = p
    /\ ret' = [op |-> op, arg |-> NULL, value |-> NULL]
    /\ UNCHANGED engineVars
    /\ UNCHANGED schedVars
    /\ UNCHANGED <<playerSatellite, activeSatellites, debrisSatellites,
                   criticalSatellites, isInitialized, initPhase, pending, loads,
                   results, rafPending, tickFaults, uiTimers>>

\* HistoricalMode.startPlayback(), part of the public API (part_004:327-335).
StartPlayback ==
    /\ playback.nextTimer <= MaxTimers
    /\ PlaybackStep("startPlayback", startPlayback(playback))

\* HistoricalMode.stopPlayback(), part of the public API.
StopPlayback == PlaybackStep("stopPlayback", stopPlayback(playback))

\* A click on the play button (part_004:68).
TogglePlayback ==
    /\ playback.isPlaying \/ playback.nextTimer <= MaxTimers
    /\ PlaybackStep("togglePlayback", togglePlayback(playback))

\* An input event of the slider (part_004:63).
OnSliderChange(value) ==
    PlaybackStep("onSliderChange", onSliderChange(playback, value))

\* A click on a speed button (part_004:72-74).
SetPlaybackSpeed(speed) ==
    /\ playback.isPlaying => playback.nextTimer <= MaxTimers
    /\ PlaybackStep("setPlaybackSpeed", setPlaybackSpeed(playback, speed))

\* A live interval timer fires.
IntervalFires ==
    /\ playback.timers # {}
    /\ playback.transitions < MaxTransitions
    /\ PlaybackStep("interval", intervalCallback(playback))

\* One playback: the year and the speed are chosen, the play button is clicked
\* once, and nothing but the timer acts from then on.
NextPlayback ==
    \/ /\ ~playback.isPlaying
       /\ playback.transitions = 0
       /\ \/ \E value \in MinYear..MaxYear : OnSliderChange(value)
          \/ \E speed \in PlaybackSpeeds : SetPlaybackSpeed(speed)
          \/ TogglePlayback
    \/ IntervalFires

SpecPlayback == InitSched /\ [][NextPlayback]_vars /\ WF_vars(IntervalFires)

\* Every operation of the playback, in any order.
NextTimeline ==
    \/ StartPlayback
    \/ StopPlayback
    \/ TogglePlayback
    \/ \E value \in MinYear..MaxYear : OnSliderChange(value)
    \/ \E speed \in PlaybackSpeeds : SetPlaybackSpeed(speed)
    \/ IntervalFires

SpecTimeline == InitSched /\ [][NextTimeline]_vars

\* ------------------------------------------------------- the action panel
\* The most actions confirmed in one behaviour.
MaxManeuvers == 1

\* const steps = Math.max(1, Math.round(durationMs / stepMs)) (part_005:852)
rampSteps(durationMs, stepMs) ==
    LET rounded == (2 * durationMs + stepMs) \div (2 * stepMs)
    IN  IF rounded > 1 THEN rounded ELSE 1

\* Math.round(from + (to - from) * t) with t = i / steps (part_005:856-857),
\* taken over the rationals.
rampValue(from, to, i, steps) ==
    (2 * from * steps + 2 * (to - from) * i + steps) \div (2 * steps)

\* A timer armed for ms milliseconds on behalf of the action confirmed as
\* number action; seq is its place in the order in which timers were armed.
Timer(kind, action, from, to, durationMs, stepMs, ms, seq) ==
    [kind |-> kind, action |-> action, from |-> from, to |-> to,
     durationMs |-> durationMs, stepMs |-> stepMs,
     steps |-> rampSteps(durationMs, stepMs), i |-> 0, ms |-> ms, seq |-> seq]

\* setTimeout / setInterval: one more timer waits.
arm(u, kind, action, from, to, durationMs, stepMs, ms) ==
    [u EXCEPT !.pending = @ \cup {Timer(kind, action, from, to, durationMs,
                                         stepMs, ms, u.seq + 1)},
              !.seq = @ + 1]

\* rampForceScore (part_005:851-863): the interval timer is created, nothing
\* is written yet.
rampForceScore(u, action, from, to, durationMs, stepMs) ==
    arm(u, "ramp", action, from, to, durationMs, stepMs, stepMs)

\* The timers executeEvasiveManeuver creates once confirmed (part_005:937-949);
\* current is stats.current, a number whatever the history holds.
evasiveTimers(u, current) ==
    LET action == u.actions + 1
        u0 == [u EXCEPT !.actions = action]
        u1 == rampForceScore(u0, action, current, 20, 1200, 120)
        u2 == arm(u1, "startRamp", action, 20, 0, 800, 100, 1300)
    IN  arm(u2, "clear", action, 0, 0, 0, 1, 2400)

\* The timers contractDebrisMitigation creates once confirmed
\* (part_005:971-994); nowScore is stats.current || 90.
mitigationTimers(u, current) ==
    LET action == u.actions + 1
        nowScore == IF current = 0 THEN 90 ELSE current
        u0 == [u EXCEPT !.actions = action]
        u1 == rampForceScore(u0, action, nowScore, MathMax(60, nowScore - 25),
                             1200, 120)
        u2 == arm(u1, "startRamp", action, 60, 35, 1400, 140, 1800)
        u3 == arm(u2, "startRamp", action, 35, 0, 900, 100, 3800)
    IN  arm(u3, "clear", action, 0, 0, 0, 1, 5000)

\* What the action panel's handlers leave alone.
PanelFrame ==
    /\ UNCHANGED <<historicalScores, lastThreats, playerPosition, debrisPositions,
                   returned, ncalls>>
    /\ UNCHANGED schedVars
    /\ UNCHANGED <<playerSatellite, activeSatellites, debrisSatellites,
                   criticalSatellites, isInitialized, initPhase, pending, loads,
                   results, rafPending, tickFaults, playback>>

\* executeEvasiveManeuver (part_005:910-950); ok is the answer to the modal.
ExecuteEvasiveManeuver(ok) ==
    /\ uiTimers.actions < MaxManeuvers
    /\ uiTimers' = IF ok THEN evasiveTimers(uiTimers,
                                            statisticsCurrent(historicalScores))
                   ELSE uiTimers
    /\ ret' = [op |-> "executeEvasiveManeuver", arg |-> NULL, value |-> NULL]
    /\ UNCHANGED <<forceScore, forceArg>>
    /\ PanelFrame

\* contractDebrisMitigation (part_005:953-995)
ContractDebrisMitigation(ok) ==
    /\ uiTimers.actions < MaxManeuvers
    /\ uiTimers' = IF ok THEN mitigationTimers(uiTimers,
                                               statisticsCurrent(historicalScores))
                   ELSE uiTimers
    /\ ret' = [op |-> "contractDebrisMitigation", arg |-> NULL, value |-> NULL]
    /\ UNCHANGED <<forceScore, forceArg>>
    /\ PanelFrame

\* A timer is allowed to fire: setTimeout and setInterval promise the delay as
\* a minimum and, between two timers, an order only when the one armed first
\* has the delay that is no longer; a timer may be as late as the page's load
\* or the throttling of a hidden tab makes it.
mayFire(u, t) ==
    /\ t \in u.pending
    /\ \A other \in u.pending : ~(other.seq < t.seq /\ other.ms <= t.ms)

\* The callback of rampForceScore's interval runs (part_005:854-862).
RampStep(t) ==
    /\ t.kind = "ramp"
    /\ mayFire(uiTimers, t)
    /\ LET i == t.i + 1
           value == rampValue(t.from, t.to, i, t.steps)
           rest == uiTimers.pending \ {t}
           done == i >= t.steps
       IN  /\ forceScore' = setForceScore(2 * value)
           /\ forceArg' = 2 * value
           /\ uiTimers' =
                 [uiTimers EXCEPT
                    !.pending = IF done THEN rest
                                ELSE rest \cup {[t EXCEPT !.i = i,
                                                          !.seq = uiTimers.seq + 1]},
                    !.seq = IF done THEN @ ELSE @ + 1,
                    !.late = IF t.action \in uiTimers.cleared
                             THEN @ \cup {t.action} ELSE @]
           /\ ret' = [op |-> IF done THEN "rampEnd" ELSE "rampStep",
                      arg |-> t.to, value |-> i - t.steps]
    /\ PanelFrame

\* A timeout that starts the next ramp runs (part_005:940-942, 977-981, 984-988).
RampStart(t) ==
    /\ t.kind = "startRamp"
    /\ mayFire(uiTimers, t)
    /\ uiTimers' = rampForceScore([uiTimers EXCEPT !.pending = @ \ {t}], t.action,
                                  t.from, t.to, t.durationMs, t.stepMs)
    /\ ret' = [op |-> "rampStart", arg |-> NULL, value |-> NULL]
    /\ UNCHANGED <<forceScore, forceArg>>
    /\ PanelFrame

\* The last timeout of an action runs: CTSEngine.setForceScore(null)
\* (part_005:944-949, 990-994).
FinalClear(t) ==
    /\ t.kind = "clear"
    /\ mayFire(uiTimers, t)
    /\ forceScore' = setForceScore(NULL)
    /\ forceArg' = NULL
    /\ uiTimers' = [uiTimers EXCEPT !.pending = @ \ {t},
                                    !.cleared = @ \cup {t.action}]
    /\ ret' = [op |-> "finalClear", arg |-> NULL, value |-> NULL]
    /\ PanelFrame

\* The last scores the action panel may find in the history.
ManeuverScores == {0, 47, 90}

InitManeuver ==
    /\ \E score \in ManeuverScores :
          /\ historicalScores = <<score>>
          /\ returned = <<score>>
    /\ forceScore = NULL
    /\ lastThreats = <<>>
    /\ forceArg = NULL
    /\ ncalls = 0
    /\ ret = [op |-> "init", arg |-> NULL, value |-> NULL]
    /\ playerPosition = NULL
    /\ debrisPositions = <<>>
    /\ InitScheduler

NextManeuver ==
    \/ \E ok \in BOOLEAN : ExecuteEvasiveManeuver(ok)
    \/ \E ok \in BOOLEAN : ContractDebrisMitigation(ok)
    \/ \E t \in uiTimers.pending : RampStep(t)
    \/ \E t \in uiTimers.pending : RampStart(t)
    \/ \E t \in uiTimers.pending : FinalClear(t)

SpecManeuver == InitManeuver /\ [][NextManeuver]_vars

\* ================================================================= claims
Min2(a, b) == IF a < b THEN a ELSE b

\* The last n elements of s.
LastN(s, n) == SubSeq(s, Len(s) - n + 1, Len(s))

IsScore(x) == x \in 0..100

CalledLive ==
    /\ ret.op = "calculateScore"
    /\ forceScore = NULL
    /\ playerPosition # NULL
    /\ debrisPositions # <<>>

\* Distance in km of debris object i from the player (NaN when not a number).
DistanceOf(i) ==
    IF debrisPositions[i] = NaN \/ playerPosition = NaN THEN NaN
    ELSE IF debrisPositions[i] >= playerPosition
         THEN debrisPositions[i] - playerPosition
         ELSE playerPosition - debrisPositions[i]

\* Twice the amount one debris object at distance d adds to S.
TwiceAmount(d) ==
    IF d = NaN \/ d >= 100 THEN 0
    ELSE (100 - d) + (IF d < 10 THEN 2 * 50 ELSE 0) + (IF d < 5 THEN 2 * 80 ELSE 0)

RECURSIVE TwiceS(_)
TwiceS(indices) ==
    IF indices = {} THEN 0
    ELSE LET i == CHOOSE j \in indices : TRUE
         IN  TwiceAmount(DistanceOf(i)) + TwiceS(indices \ {i})

\* C1: the score history never holds more than 120 samples, whatever calls
\* (calculateScore on any path, setForceScore, resetHistory) were made.
C1_HistoryBounded == Len(historicalScores) <= 120

C1_Witness ==
    /\ Len(returned) = MAX_HISTORY + 1
    /\ Len(historicalScores) = MAX_HISTORY

\* C2: every value calculateScore returns and every sample in the history is an
\* integer in [0, 100], for any geometry and any argument of setForceScore.
C2_ScoresInRange ==
    /\ \A i \in 1..Len(historicalScores) : IsScore(historicalScores[i])
    /\ ret.op = "calculateScore" => IsScore(ret.value)

\* C3: every calculateScore call appends exactly one sample: the history grows
\* by one while it is below 120 and stays at 120 afterwards, and the sample at
\* its tail is the value the call returned.
C3_EachCallAppendsOne ==
    [][ncalls' # ncalls =>
        /\ Len(historicalScores') =
              IF Len(historicalScores) < 120 THEN Len(historicalScores) + 1 ELSE 120
        /\ historicalScores'[Len(historicalScores')] = ret'.value]_vars

C3_Witness ==
    /\ ret.op = "calculateScore"
    /\ Len(returned) = MAX_HISTORY + 2
    /\ Len(historicalScores) = MAX_HISTORY

\* C4: the history is the FIFO window of the calls since the last reset: the
\* last min(n, 120) returned values, in call order, newest at the tail.
C4_HistoryIsFifoWindow ==
    historicalScores = LastN(returned, Min2(Len(returned), 120))

C4_Witness ==
    /\ Len(returned) > MAX_HISTORY
    /\ historicalScores[MAX_HISTORY] # historicalScores[MAX_HISTORY - 1]
    /\ historicalScores[MAX_HISTORY - 1] # historicalScores[MAX_HISTORY - 2]

\* C5: on the live path the returned score is min(100, round(S)), S being the
\* sum over the debris at finite distance d < 100 km of (100 - d) * 0.5, plus
\* 50 if d < 10 km, plus a further 80 if d < 5 km.
C5_LiveScoreFormula ==
    CalledLive =>
        ret.value = Min2(100, (TwiceS(1..Len(debrisPositions)) + 1) \div 2)

C5_Witness ==
    /\ CalledLive
    /\ Len(debrisPositions) = 3
    /\ \E i, j, k \in 1..3 :
          /\ DistanceOf(i) = NaN
          /\ DistanceOf(j) # NaN /\ DistanceOf(j) >= 100
          /\ DistanceOf(k) # NaN /\ DistanceOf(k) < 100
    /\ ret.value > 0
    /\ ret.value < 100

\* C6: with no override, one debris object closer than 5 km makes the score
\* 100 whatever the other debris objects are.
C6_ExtremeProximityIs100 ==
    (CalledLive /\ \E i \in 1..Len(debrisPositions) :
                      DistanceOf(i) # NaN /\ DistanceOf(i) < 5)
        => ret.value = 100

C6_Witness ==
    /\ CalledLive
    /\ debrisPositions = <<NaN, 100, 3>>
    /\ ret.value = 100

\* C7 as stated: a single debris object at 50 km, no override: the score is 25
\* and the status derived from it is Elevated.
C7_Score25Elevated ==
    (CalledLive /\ Len(debrisPositions) = 1 /\ DistanceOf(1) = 50)
        => ret.value = 25 /\ getScoreStatus(ret.value) = "ELEVATED"

\* C7 amended: a single debris object at 50 km, no override: the score is 25
\* and the status derived from it is Nominal (25 is below 31).
C7_Score25Nominal ==
    (CalledLive /\ Len(debrisPositions) = 1 /\ DistanceOf(1) = 50)
        => ret.value = 25 /\ getScoreStatus(ret.value) = "NOMINAL"

C7_Witness ==
    /\ CalledLive
    /\ debrisPositions = <<50>>
    /\ ret.value = 25

\* C8: getScoreStatus maps each score in 0..100 to its band (below 31 Nominal,
\* 31-60 Elevated, 61-85 Warning, 86 and above Critical) and getScoreColor
\* returns the class of the same band.
C8_StatusBands ==
    /\ ret.op = "getScoreStatus" =>
          /\ (ret.arg < 31) = (ret.value = "NOMINAL")
          /\ (ret.arg >= 31 /\ ret.arg <= 60) = (ret.value = "ELEVATED")
          /\ (ret.arg >= 61 /\ ret.arg <= 85) = (ret.value = "WARNING")
          /\ (ret.arg >= 86) = (ret.value = "CRITICAL")
    /\ ret.op = "getScoreColor" =>
          /\ (ret.arg < 31) = (ret.value = "nominal")
          /\ (ret.arg >= 31 /\ ret.arg <= 60) = (ret.value = "elevated")
          /\ (ret.arg >= 61 /\ ret.arg <= 85) = (ret.value = "warning")
          /\ (ret.arg >= 86) = (ret.value = "critical")

C8_Witness ==
    /\ ret.op = "getScoreColor"
    /\ ret.arg = 86
    /\ ret.value = "critical"

\* C9: a call with no player position or an empty debris list (no override)
\* returns 0, leaves the closest-threat list empty and appends 0.
C9_InvalidInputEmptiesThreats ==
    (/\ ret.op = "calculateScore"
     /\ forceScore = NULL
     /\ (playerPosition = NULL \/ debrisPositions = <<>>))
        => /\ ret.value = 0
           /\ lastThreats = <<>>
           /\ historicalScores[Len(historicalScores)] = 0

\* The value setForceScore keeps for an argument a given in halves: the
\* nearest integer, clamped to [0, 100]; NaN for an argument that is no number.
StoredOverride(a) ==
    IF a = NaN THEN NaN
    ELSE LET nearest == (a + 1) \div 2
         IN  IF nearest < 0 THEN 0 ELSE IF nearest > 100 THEN 100 ELSE nearest

\* The integer n and the number h given in halves are the same number.
SameNumber(n, h) == IF h = NaN THEN n = NaN ELSE n # NaN /\ n * 2 = h

\* C10 as stated: while an override is set, a call returns exactly the value
\* that was passed to setForceScore and appends it.
C10_ReturnsPassedValue ==
    [][(ncalls' # ncalls /\ forceScore # NULL) =>
        /\ SameNumber(ret'.value, forceArg)
        /\ SameNumber(historicalScores'[Len(historicalScores')], forceArg)]_vars

\* C10 amended: while an override is set, a call ignores the positions (the
\* closest-threat list is untouched), returns the value setForceScore stored,
\* which is the passed value rounded and clamped to [0, 100], and appends it.
C10_ReturnsStoredOverride ==
    [][(ncalls' # ncalls /\ forceScore # NULL) =>
        /\ forceScore = StoredOverride(forceArg)
        /\ ret'.value = forceScore
        /\ historicalScores'[Len(historicalScores')] = forceScore
        /\ lastThreats' = lastThreats]_vars

C10_Witness ==
    /\ ret.op = "calculateScore"
    /\ forceArg = 300
    /\ ret.value = 100
    /\ playerPosition # NULL
    /\ debrisPositions = <<50>>

\* --------------------------------------------------- claims on the scheduler
\* A step that is one animate() frame.
AnimateStep == frameCount' = frameCount + 1

\* The last frame ran the block cat.
Ran(cat) == \E i \in 1..Len(tickLog) : tickLog[i].cat = cat

\* The last operation was a frame.
Animated == ret.op = "animate"

\* A frame whose scoring block is executed: running, scoring interval due.
ScoringTick ==
    /\ AnimateStep
    /\ isRunning
    /\ lastUpdateTime' - lastCTSUpdate > CTS_UPDATE_INTERVAL

\* C11: every scoring tick the scheduler executes (running, scoring interval
\* due) appends one sample to the history: the override value when an override
\* is set, 0 when the player position is unavailable or there is no debris.
C11_ScoringTickAppendsSample ==
    [][ScoringTick =>
        /\ Len(historicalScores') = Len(historicalScores) + 1
        /\ forceScore # NULL =>
              historicalScores'[Len(historicalScores')] = forceScore
        /\ (forceScore = NULL /\ (playerPosition' = NULL \/ debrisPositions' = <<>>)) =>
              historicalScores'[Len(historicalScores')] = 0]_vars

\* C12: setForceScore stores a value that depends on its argument alone (so a
\* second call with the same argument leaves the engine as the first left it),
\* it never changes the history or the threat list, setForceScore(null) stores
\* no override, and a call of calculateScore made while the last argument was
\* null scores the live geometry.
C12_OverrideIdempotentAndCleared ==
    [][/\ ret'.op = "setForceScore" =>
              /\ historicalScores' = historicalScores
              /\ lastThreats' = lastThreats
              /\ forceScore' = IF ret'.arg = NULL THEN NULL
                               ELSE StoredOverride(ret'.arg)
       /\ (ret.op = "setForceScore" /\ ret'.op = "setForceScore"
              /\ ret'.arg = ret.arg) =>
              /\ forceScore' = forceScore
              /\ historicalScores' = historicalScores
              /\ lastThreats' = lastThreats
       /\ (ret'.op = "calculateScore" /\ forceArg = NULL
              /\ playerPosition # NULL /\ debrisPositions # <<>>) =>
              ret'.value = Min2(100, (TwiceS(1..Len(debrisPositions)) + 1) \div 2)]_vars

\* An override of 42.5 was set and returned as 43, then cleared with null, and
\* the next call scored one object at 50 km as 25.
C12_Witness ==
    /\ ret.op = "calculateScore"
    /\ forceArg = NULL
    /\ forceScore = NULL
    /\ Len(returned) >= 2
    /\ returned[Len(returned) - 1] = 43
    /\ playerPosition = 0
    /\ debrisPositions = <<50>>
    /\ ret.value = 25

\* C13: every frame, running or paused, advances the virtual time by exactly
\* the wall-clock time since the previous frame times the time multiplier
\* (both sides in hundredths of a ms), and the virtual time never decreases.
C13_VirtualTimeAdvancesExactly ==
    [][AnimateStep =>
        /\ currentDate' # NaN
        /\ timeMultiplier # NaN
        /\ (currentDate' - currentDate) * 100 =
               (lastUpdateTime' - lastUpdateTime) * timeMultiplier
        /\ currentDate' >= currentDate]_vars

\* The number v (in hundredths) clamped to [0.1, 100].
ClampedMultiplier(v) == IF v < 10 THEN 10 ELSE IF v > 10000 THEN 10000 ELSE v

\* C14: the time multiplier is a number in [0.1, 100] after every step:
\* setTimeMultiplier(v) stores v clamped to that range, whatever v is, and no
\* other operation changes the multiplier.
C14_MultiplierInRange ==
    [][/\ timeMultiplier' # NaN
       /\ timeMultiplier' >= 10
       /\ timeMultiplier' <= 10000
       /\ ret'.op = "setTimeMultiplier" =>
              (ret'.arg # NaN => timeMultiplier' = ClampedMultiplier(ret'.arg))
       /\ ret'.op # "setTimeMultiplier" => timeMultiplier' = timeMultiplier]_vars

\* C15: in a frame a throttled block (debris, active objects, score, UI) runs
\* only if more wall-clock time than its interval has passed since its stamp;
\* its stamp becomes the frame's wall-clock time if it runs and is left alone
\* if it does not, whatever the other blocks do.
C15_ThrottledOnlyWhenDue ==
    [][AnimateStep =>
        /\ Ran("debris")' =>
              lastUpdateTime' - lastDebrisUpdate > DEBRIS_UPDATE_INTERVAL
        /\ Ran("active")' =>
              lastUpdateTime' - lastActiveSatUpdate > ACTIVE_SAT_INTERVAL
        /\ Ran("cts")' =>
              lastUpdateTime' - lastCTSUpdate > CTS_UPDATE_INTERVAL
        /\ Ran("ui")' =>
              lastUpdateTime' - lastUIUpdate > UI_UPDATE_INTERVAL
        /\ lastDebrisUpdate' =
              IF Ran("debris")' THEN lastUpdateTime' ELSE lastDebrisUpdate
        /\ lastActiveSatUpdate' =
              IF Ran("active")' THEN lastUpdateTime' ELSE lastActiveSatUpdate
        /\ lastCTSUpdate' =
              IF Ran("cts")' THEN lastUpdateTime' ELSE lastCTSUpdate
        /\ lastUIUpdate' =
              IF Ran("ui")' THEN lastUpdateTime' ELSE lastUIUpdate]_vars

\* Frames at 1100, 1200 and 1301 ms while running: the first ran every block,
\* the second (exactly 100 ms later) none of the throttled ones, the third
\* debris, score and UI (201 ms) but not the active objects (201 ms of 500).
C15_Witness ==
    /\ Animated
    /\ isRunning
    /\ frameCount = 3
    /\ lastUpdateTime = 1301
    /\ lastCTSUpdate = 1301
    /\ lastDebrisUpdate = 1301
    /\ lastUIUpdate = 1301
    /\ lastActiveSatUpdate = 1100
    /\ Ran("cts")
    /\ ~Ran("active")

\* The number of times the last frame ran the block cat.
TimesRan(cat) == Cardinality({i \in 1..Len(tickLog) : tickLog[i].cat = cat})

\* C16: in every frame made while the running flag is set the player position
\* is recomputed exactly once, at the virtual time that frame has just
\* advanced to, however little wall-clock time the frame took.
C16_PlayerUpdatedEveryRunningTick ==
    [][(AnimateStep /\ isRunning) =>
        /\ TimesRan("player")' = 1
        /\ \A i \in 1..Len(tickLog') :
              tickLog'[i].cat = "player" => tickLog'[i].at = currentDate']_vars

\* Two frames 16 ms apart while running: the second recomputed the player
\* position at the new virtual time and ran no throttled block.
C16_Witness ==
    /\ Animated
    /\ isRunning
    /\ frameCount = 2
    /\ ret.arg = 16
    /\ currentDate = WallStart + 32
    /\ tickLog = <<[cat |-> "player", at |-> WallStart + 32]>>

\* C17: within one frame the player-position update, when it runs, comes
\* before the debris refresh and before the score update of that frame, and
\* the three work at the same virtual time.
C17_PlayerBeforeDebrisAndScore ==
    [][AnimateStep =>
        /\ \A i, j \in 1..Len(tickLog') :
              (tickLog'[i].cat = "player" /\ tickLog'[j].cat \in {"debris", "cts"})
                  => i < j
        /\ \A i, j \in 1..Len(tickLog') :
              ({tickLog'[i].cat, tickLog'[j].cat} \subseteq {"player", "debris", "cts"})
                  => tickLog'[i].at = tickLog'[j].at]_vars

\* A later frame, 101 ms after the previous one, ran the player update, the
\* debris refresh and a score update that called calculateScore.
C17_Witness ==
    /\ Animated
    /\ frameCount >= 2
    /\ ret.arg = 101
    /\ Ran("player") /\ Ran("debris") /\ Ran("cts")
    /\ ~Ran("active")
    /\ ncalls >= 1
    /\ lastCTSUpdate = lastUpdateTime
    /\ historicalScores # <<>>
    /\ historicalScores[Len(historicalScores)] = 25

\* A frame made while the simulation is paused.
PausedTick == AnimateStep /\ ~isRunning

\* C18: a frame made while paused evaluates no collision: calculateScore is
\* not called and the history stays as it was.
C18_NoScoringWhilePaused ==
    [][PausedTick =>
        /\ ~Ran("cts")'
        /\ ncalls' = ncalls
        /\ returned' = returned
        /\ historicalScores' = historicalScores
        /\ lastThreats' = lastThreats]_vars

\* A paused frame with the scoring interval long over and a player and a
\* debris object to score, after an earlier running frame had scored them.
C18_Witness ==
    /\ Animated
    /\ ~isRunning
    /\ historicalScores = <<25>>
    /\ lastCTSUpdate > 0
    /\ lastUpdateTime - lastCTSUpdate > CTS_UPDATE_INTERVAL
    /\ playerPosition = 0
    /\ debrisPositions = <<50>>
    /\ ~Ran("cts")

\* C19 as stated: a frame made while paused runs neither the player update nor
\* the debris refresh nor the scoring, and still runs the active-object
\* refresh and the UI snapshot whenever their intervals are over.
C19_ActiveAndUIRunWhilePaused ==
    [][PausedTick =>
        /\ ~Ran("player")' /\ ~Ran("debris")' /\ ~Ran("cts")'
        /\ Ran("active")' <=>
              (lastUpdateTime' - lastActiveSatUpdate > ACTIVE_SAT_INTERVAL)
        /\ Ran("ui")' <=>
              (lastUpdateTime' - lastUIUpdate > UI_UPDATE_INTERVAL)]_vars

\* C19, amended: a frame made while paused runs neither the player update nor
\* the debris refresh nor the scoring nor the UI snapshot; the active-object
\* refresh alone still runs whenever its interval is over.
C19_OnlyActiveRunsWhilePaused ==
    [][PausedTick =>
        /\ ~Ran("player")' /\ ~Ran("debris")' /\ ~Ran("cts")' /\ ~Ran("ui")'
        /\ lastUIUpdate' = lastUIUpdate
        /\ ctsDisplay' = ctsDisplay
        /\ Ran("active")' <=>
              (lastUpdateTime' - lastActiveSatUpdate > ACTIVE_SAT_INTERVAL)]_vars

\* A paused frame 501 ms after a running frame that ran every block: the
\* active-object refresh ran again, the UI snapshot, due as well, did not.
C19_Witness ==
    /\ Animated
    /\ ~isRunning
    /\ ret.arg = 501
    /\ lastUIUpdate > 0
    /\ lastUpdateTime - lastUIUpdate > UI_UPDATE_INTERVAL
    /\ lastActiveSatUpdate = lastUpdateTime
    /\ tickLog = <<[cat |-> "active", at |-> currentDate]>>

\* C20: pause() and resume() change the running flag and nothing else (not the
\* history, the threat list, the override, the virtual time, the multiplier,
\* the frame bookkeeping or any stamp), and in a frame made while running the
\* debris refresh and the scoring run exactly when their intervals are over.
C20_PauseResumeOnlyFlag ==
    [][/\ ret'.op \in {"pause", "resume"} =>
              /\ isRunning' = (ret'.op = "resume")
              /\ UNCHANGED <<historicalScores, lastThreats, forceScore, returned,
                             ncalls, currentDate, timeMultiplier, lastUpdateTime,
                             frameCount, lastDebrisUpdate, lastActiveSatUpdate,
                             lastCTSUpdate, lastUIUpdate, ctsDisplay>>
       /\ (AnimateStep /\ isRunning) =>
              /\ Ran("debris")' <=>
                    (lastUpdateTime' - lastDebrisUpdate > DEBRIS_UPDATE_INTERVAL)
              /\ Ran("cts")' <=>
                    (lastUpdateTime' - lastCTSUpdate > CTS_UPDATE_INTERVAL)]_vars

\* A running frame at 1100 ms scored 25, a paused frame at 1601 ms ran only
\* the active objects, and after resume() the frame at 1701 ms, 100 ms later,
\* refreshed the debris and scored 25 again.
C20_Witness ==
    /\ Animated
    /\ isRunning
    /\ frameCount = 3
    /\ ret.arg = 100
    /\ lastUpdateTime = 1701
    /\ lastActiveSatUpdate = 1601
    /\ lastCTSUpdate = 1701
    /\ lastDebrisUpdate = 1701
    /\ historicalScores = <<25, 25>>
    /\ Ran("cts") /\ Ran("debris")

\* C21: setTimeMultiplier changes the multiplier and nothing else (not the
\* virtual time, the last wall-clock sample or any stamp), and the frame that
\* follows multiplies the whole wall-clock time since the previous frame by
\* the multiplier then in force (the Date keeps the whole ms of the product).
C21_MultiplierChangeOnly ==
    [][/\ ret'.op = "setTimeMultiplier" =>
              UNCHANGED <<currentDate, lastUpdateTime, lastDebrisUpdate,
                          lastActiveSatUpdate, lastCTSUpdate, lastUIUpdate,
                          isRunning, frameCount, historicalScores, forceScore,
                          lastThreats>>
       /\ AnimateStep =>
              /\ lastUpdateTime' = lastUpdateTime + ret'.arg
              /\ IF timeMultiplier = NaN \/ currentDate = NaN
                 THEN currentDate' = NaN
                 ELSE /\ (currentDate' - currentDate) * 100 <= ret'.arg * timeMultiplier
                      /\ (currentDate' - currentDate) * 100 > ret'.arg * timeMultiplier - 100]_vars

\* A frame of 16 ms at 1x, then setTimeMultiplier(10), then a frame of 101 ms:
\* the virtual time is 1000 + 16 + 1010.
C21_Witness ==
    /\ Animated
    /\ frameCount = 2
    /\ timeMultiplier = 1000
    /\ lastUpdateTime = WallStart + 117
    /\ currentDate = WallStart + 1026

\* C22: when initializePlayerSatellite succeeds while a player object is
\* already set (a session restarts, directly or after a return to setup), the
\* simulation clock is as at session start: the multiplier is 1 and the
\* virtual time is the wall-clock time.
C22_RestartResetsClock ==
    [][(ret'.op = "initializePlayerSatellite" /\ ret'.value = TRUE
            /\ playerSatellite # NULL) =>
        /\ timeMultiplier' = 100
        /\ currentDate' = lastUpdateTime']_vars

\* The positions a list function must return for the outcomes: one for each
\* object that propagated to a finite position, in store order.
RECURSIVE ValidPositions(_)
ValidPositions(outcomes) ==
    IF outcomes = <<>> THEN <<>>
    ELSE IF Head(outcomes) \in {NULL, NaN} THEN ValidPositions(Tail(outcomes))
    ELSE <<Head(outcomes)>> \o ValidPositions(Tail(outcomes))

\* C23: an object whose propagation or scene conversion fails yields no
\* position: getPlayerPosition returns none, and the lists of
\* getDebrisPositions, getCriticalDebrisPositions and
\* getActiveSatellitePositions hold the positions of the other objects only,
\* never a none entry.
C23_FailedObjectsOmitted ==
    /\ ret.op = "getPlayerPosition" =>
          (ret.arg[1] \in {NULL, NaN} => ret.value[1] = NULL)
    /\ ret.op \in {"getDebrisPositions", "getCriticalDebrisPositions",
                   "getActiveSatellitePositions"} =>
          /\ \A i \in 1..Len(ret.value) : ret.value[i] # NULL
          /\ ret.value = ValidPositions(ret.arg)

\* C24: calculateScore never raises: it returns a score and appends it to the
\* history, and on the live path the score is the one of the entries at a
\* finite distance, the others being skipped.
C24_CalculateScoreNeverRaises ==
    [][ret'.op = "calculateScore" =>
        /\ ret'.value # TypeError
        /\ Len(historicalScores') = Min2(MAX_HISTORY, Len(historicalScores) + 1)
        /\ historicalScores'[Len(historicalScores')] = ret'.value]_vars

\* C25: no failure inside a frame stops tracking: every frame, whatever
\* raises in it, leaves exactly one next frame requested (so that frames keep
\* occurring), and every block whose condition holds runs and is stamped
\* whatever raised in the other blocks.
C25_FaultsContained ==
    [][AnimateStep =>
            /\ rafPending' = 1
            /\ lastCTSUpdate' = IF Ran("cts")' THEN lastUpdateTime' ELSE lastCTSUpdate
            /\ lastDebrisUpdate' =
                  IF Ran("debris")' THEN lastUpdateTime' ELSE lastDebrisUpdate
            /\ Ran("player")' <=> isRunning
            /\ Ran("debris")' <=>
                  (isRunning /\ lastUpdateTime' - lastDebrisUpdate > DEBRIS_UPDATE_INTERVAL)
            /\ Ran("active")' <=>
                  (lastUpdateTime' - lastActiveSatUpdate > ACTIVE_SAT_INTERVAL)
            /\ Ran("cts")' <=>
                  (isRunning /\ lastUpdateTime' - lastCTSUpdate > CTS_UPDATE_INTERVAL)
            /\ Ran("ui")' <=>
                  (isRunning /\ lastUpdateTime' - lastUIUpdate > UI_UPDATE_INTERVAL)]_vars

\* In a running frame the player update raised; the debris refresh, the
\* scoring and the UI snapshot of that frame ran all the same, and the next
\* frame is requested.
C25_Witness ==
    /\ Animated
    /\ isRunning
    /\ tickFaults = {"player"}
    /\ Ran("debris") /\ Ran("cts") /\ Ran("ui")
    /\ historicalScores # <<>>
    /\ lastCTSUpdate = lastUpdateTime
    /\ rafPending = 1

\* The debris objects (1-based) at a finite distance below 100 km.
InDangerZone ==
    {i \in 1..Len(debrisPositions) :
        DistanceOf(i) # NaN /\ DistanceOf(i) < DANGER_RADIUS}

\* The objects (1-based) the closest-threat list names.
ListedThreats == {lastThreats[n].index + 1 : n \in 1..Len(lastThreats)}

\* C26: after a live call the closest-threat list holds min(5, k) of the k
\* debris objects closer than 100 km, each once with its distance, in
\* ascending order of distance, and no object left out is nearer than a listed
\* one; no object at 100 km or more is listed.
C26_ClosestThreats ==
    CalledLive =>
        /\ Len(lastThreats) = Min2(5, Cardinality(InDangerZone))
        /\ Cardinality(ListedThreats) = Len(lastThreats)
        /\ ListedThreats \subseteq InDangerZone
        /\ \A n \in 1..Len(lastThreats) :
              lastThreats[n].distance = DistanceOf(lastThreats[n].index + 1)
        /\ \A n, m \in 1..Len(lastThreats) :
              n < m => lastThreats[n].distance <= lastThreats[m].distance
        /\ \A i \in InDangerZone \ ListedThreats : \A n \in 1..Len(lastThreats) :
              lastThreats[n].distance <= DistanceOf(i)

\* Six objects closer than 100 km, the first of them the farthest: the list
\* holds five, from 3 km to 50 km, and leaves the one at 99 km out.
C26_Witness ==
    /\ CalledLive
    /\ Cardinality(InDangerZone) = 6
    /\ DistanceOf(1) = 99
    /\ Len(lastThreats) = 5
    /\ lastThreats[1].distance = 3
    /\ lastThreats[5].distance = 50
    /\ 1 \notin ListedThreats

QueryOps ==
    {"getScoreStatus", "getScoreColor", "getThreatDescription",
     "getStatistics", "getClosestThreats", "getHistory"}

\* C27: getScoreStatus, getScoreColor, getThreatDescription, getStatistics,
\* getClosestThreats and getHistory leave the score history, the override and
\* the closest-threat list as they were.
C27_QueriesLeaveState ==
    [][ret'.op \in QueryOps =>
          /\ historicalScores' = historicalScores
          /\ forceScore' = forceScore
          /\ lastThreats' = lastThreats]_vars

\* A query answered while the history, the closest-threat list and the
\* override are all non-empty.
C27_Witness ==
    /\ ret.op = "getHistory"
    /\ Len(ret.value) >= 2
    /\ Len(lastThreats) >= 1
    /\ forceScore # NULL

\* The non-empty lines of a text and the places where a line 1 is immediately
\* followed by a line 2.
WellFormedAt(lines) ==
    {i \in 1..(Len(lines) - 1) : lines[i].kind = "1" /\ lines[i + 1].kind = "2"}

ParsedAll(tleText, satellites) ==
    LET lines == trimmedLines(tleText.lines)
    IN  /\ Len(satellites) = Cardinality(WellFormedAt(lines))
        /\ \A i \in WellFormedAt(lines) :
              \E k \in 1..Len(satellites) :
                 /\ satellites[k].tle1 = lines[i].no
                 /\ satellites[k].tle2 = lines[i + 1].no
        /\ \A k \in 1..(Len(satellites) - 1) :
              satellites[k].tle1 < satellites[k + 1].tle1

StoredAll(list, store, count) ==
    /\ count = Len(store)
    /\ ~list.isArray => store = <<>>
    /\ list.isArray =>
          /\ \A i \in 1..Len(list.records) :
                (list.records[i].error = 0)
                   <=> (\E k \in 1..Len(store) : store[k] = list.records[i].id)
          /\ \A k \in 1..(Len(store) - 1) : store[k] < store[k + 1]

\* C28: parseTLE returns, in input order, exactly the records whose line 1 is
\* immediately followed by a line 2, whatever malformed line 1 comes before
\* them; initSatellites stores exactly the records whose element set is
\* accepted, in order, and returns the numbers of records stored.
C28_MalformedSkipped ==
    /\ (ret.op = "parseTLE" /\ ret.arg.isString) => ParsedAll(ret.arg, ret.value)
    /\ (ret.op = "parseTLE" /\ ~ret.arg.isString) => ret.value = <<>>
    /\ ret.op = "initSatellites" =>
          /\ StoredAll(ret.arg.active, activeSatellites, ret.value.active)
          /\ StoredAll(ret.arg.debris, debrisSatellites, ret.value.debris)
          /\ StoredAll(ret.arg.critical, criticalSatellites, ret.value.critical)

\* A batch whose debris list has two rejected records before an accepted one,
\* next to a list with a rejected record after an accepted one.
C28_Witness ==
    /\ ret.op = "initSatellites"
    /\ Len(ret.arg.debris.records) = 3
    /\ debrisSatellites = <<3>>
    /\ Len(ret.arg.active.records) = 2
    /\ activeSatellites = <<1>>
    /\ ret.value.debris = 1

\* The non-empty lines of the input hold a line 1 of at least 69 characters
\* with a line 2 of at least 69 characters next.
HasFullPair(inputText) ==
    LET lines == inputLines(inputText)
    IN  \E i \in 1..(Len(lines) - 1) :
           /\ lines[i].kind = "1"
           /\ lines[i].length >= 69
           /\ lines[i + 1].kind = "2"
           /\ lines[i + 1].length >= 69

\* C29: validateTLEInput accepts an input only if it holds a line starting
\* with "1 " of at least 69 characters immediately followed by a line starting
\* with "2 " of at least 69 characters; a rejection has valid = false, no
\* satellite and a non-empty error message.
C29_ValidateTLEInput ==
    ret.op = "validateTLEInput" =>
        /\ ret.value.valid => HasFullPair(ret.arg)
        /\ ~ret.value.valid =>
              /\ ret.value.satellite = NoSatellite
              /\ ret.value.error \notin {"null", ""}

\* An input accepted with a name line and a blank line in it.
C29_Witness ==
    /\ ret.op = "validateTLEInput"
    /\ ret.value.valid
    /\ ret.value.satellite.name # USER_SATELLITE
    /\ \E i \in 1..Len(ret.arg) : ret.arg[i].kind = "blank"

\* The stores hold what initSatellites makes of the delivered result.
StoresPopulated ==
    LET out == initSatellites(asTleData(results))
    IN  /\ activeSatellites = out.active
        /\ debrisSatellites = out.debris
        /\ criticalSatellites = out.critical

\* C30: an animate call is made only when every file has answered, the
\* callback of loadAllData has run and initSatellites has filled the stores
\* from its result; the loop is started by that callback only, once: never
\* is more than one animate call outstanding, and once started the loop is
\* not started again.
C30_NoTickBeforeIngestion ==
    [][/\ ret'.op = "animate" =>
             /\ initPhase = "started"
             /\ isInitialized
             /\ pending = 0
             /\ StoresPopulated
       /\ rafPending' <= 1
       /\ rafPending' > rafPending =>
             /\ ret'.op = "fileLoaded"
             /\ rafPending = 0
             /\ pending' = 0
             /\ initPhase # "started" /\ initPhase' = "started"
       /\ initPhase = "started" => initPhase' = "started" /\ rafPending' = 1]_vars

\* Frames have run after a start-up in which one file failed to load and a
\* record of another was rejected.
C30_Witness ==
    /\ ret.op = "animate"
    /\ frameCount = 2
    /\ results.active = <<>>
    /\ Len(results.debris) = 2
    /\ debrisSatellites = <<2>>
    /\ criticalSatellites = <<1>>

FiniteComponent(v) ==
    v \notin {Undefined, NotNumber, NaN, PosInfinity, NegInfinity}

\* C31: eciToScenePosition returns none when its argument is missing or one
\* of its components is NaN, infinite, missing or not a number, and returns
\* (x, z, -y), each divided by 1000, when the three components are finite
\* numbers.
C31_SceneConversion ==
    ret.op = "eciToScenePosition" =>
        LET p == ret.arg
            finite == /\ p.present
                      /\ FiniteComponent(p.x)
                      /\ FiniteComponent(p.y)
                      /\ FiniteComponent(p.z)
        IN  /\ ~finite => ret.value = NullVector
            /\ finite =>
                  /\ ~ret.value.isNull
                  /\ ret.value.x * 1000 = p.x * PerUnit
                  /\ ret.value.y * 1000 = p.z * PerUnit
                  /\ ret.value.z * 1000 = (0 - p.y) * PerUnit

\* A position with three different finite components was converted.
C31_Witness ==
    /\ ret.op = "eciToScenePosition"
    /\ ret.arg.x = 42164
    /\ ret.arg.y = -7000
    /\ ret.arg.z = 0
    /\ ret.value = [isNull |-> FALSE, x |-> 421640, y |-> 0, z |-> 70000]

\* C33: when initPlayerSatellite rejects the element set, by an error code or
\* by an exception, the player satellite tracked before stays in place and
\* initializePlayerSatellite returns false and leaves the running flag as it
\* was.
C33_FailedInitChangesNothing ==
    [][\A tle \in TLERecords, sceneOk \in BOOLEAN :
          (/\ ret'.op = "initializePlayerSatellite"
           /\ tle.error # 0
           /\ InitializePlayerSatellite(tle, sceneOk)) =>
              /\ playerSatellite' = playerSatellite
              /\ isRunning' = isRunning
              /\ ret'.value = FALSE]_<<playerSatellite, isRunning, vars>>

\* An element set was rejected while another satellite was tracked and the
\* simulation was running.
C33_Witness ==
    /\ ret.op = "initializePlayerSatellite"
    /\ ret.value = FALSE
    /\ playerSatellite # NULL
    /\ playerSatellite # ret.arg
    /\ isRunning

\* C36: the running flag is never set while no player satellite has been
\* successfully initialised.
C36_RunningOnlyWithPlayer == isRunning => playerSatellite # NULL

\* C34: the callback of loadAllData is invoked at most once, and once exactly
\* when every file callback has run, whatever the order in which the fetches
\* settle; it never gets an error, a file that failed to load leaving the
\* empty list in the result; each file callback is invoked once when its
\* fetch has settled and not before.
C34_LoadAllDataCallsBack ==
    /\ loads.delivered <= 1
    /\ loads.delivered = 1 <=> (\A key \in DataFiles : loads.calls[key] = 1)
    /\ loads.delivered = 1 => loads.inFlight = {} /\ pending = 0
    /\ ~loads.deliveredError
    /\ \A key \in loads.failed : results[key] = <<>>
    /\ \A key \in DataFiles :
          /\ loads.calls[key] <= 1
          /\ key \in loads.inFlight => loads.calls[key] = 0
          /\ (initPhase = "loading" /\ key \notin loads.inFlight) =>
                loads.calls[key] = 1
    /\ initPhase = "started" => loads.delivered = 1

\* The result was delivered after the debris file failed to load and the
\* other two files gave records.
C34_Witness ==
    /\ loads.delivered = 1
    /\ loads.failed = {"debris"}
    /\ results.active # <<>>
    /\ results.critical # <<>>
    /\ initPhase = "started"

\* Some debris object is closer to the player than the critical radius.
InsideCriticalRadius ==
    /\ playerPosition # NULL
    /\ \E i \in 1..Len(debrisPositions) :
          /\ isFinite(distanceTo(playerPosition, debrisPositions[i]))
          /\ distanceTo(playerPosition, debrisPositions[i]) < CRITICAL_RADIUS

\* C35: with no override, a score computed while some debris object is closer
\* to the player than the critical radius is at least 95, and its status is
\* CRITICAL.
C35_CriticalWhenClose ==
    (ret.op = "calculateScore" /\ forceScore = NULL /\ InsideCriticalRadius) =>
        /\ ret.value >= 95
        /\ getScoreStatus(ret.value) = "CRITICAL"

\* The lowest such score: one object, 9 km away, scores 96.
C35_Witness ==
    /\ ret.op = "calculateScore"
    /\ forceScore = NULL
    /\ playerPosition = 0
    /\ debrisPositions = <<9>>
    /\ ret.value = 96

\* C37: getThreatDescription gives the no-threat message when the
\* closest-threat list is empty, and otherwise names the band of the closest
\* threat's distance d: extreme if d < 5, critical if 5 <= d < 10, warning if
\* 10 <= d < 50, elevated if d >= 50.
C37_ThreatDescription ==
    ret.op = "getThreatDescription" =>
        IF lastThreats = <<>>
        THEN ret.value.level = "NONE"
        ELSE LET d == lastThreats[1].distance
             IN  /\ d < 5 => ret.value.level = "EXTREME"
                 /\ (5 <= d /\ d < 10) => ret.value.level = "CRITICAL"
                 /\ (10 <= d /\ d < 50) => ret.value.level = "WARNING"
                 /\ d >= 50 => ret.value.level = "ELEVATED"
                 /\ ret.value.distanceKm = d

\* The description of a list whose closest threat is at 50 km exactly.
C37_Witness ==
    /\ ret.op = "getThreatDescription"
    /\ Len(lastThreats) = 2
    /\ lastThreats[1].distance = 50
    /\ ret.value.level = "ELEVATED"

\* C38: a playback started from any year of 1980..2025 and left alone ends: the
\* year never exceeds 2025, the playback stops only when the timer fires at
\* 2025, its timer is cleared then, the transition to live mode is called
\* exactly once, and every playback started does reach that end.
C38_PlaybackTerminates ==
    /\ [](playback.currentYear <= MaxYear)
    /\ [](playback.transitions <= 1)
    /\ [](playback.transitions = 1 =>
            /\ ~playback.isPlaying
            /\ playback.timers = {}
            /\ playback.currentYear = MaxYear)
    /\ [][(playback.isPlaying /\ ~playback'.isPlaying) =>
            /\ playback.currentYear = MaxYear
            /\ playback'.transitions = 1]_playback
    /\ (playback.isPlaying ~> (~playback.isPlaying /\ playback.transitions = 1))

C38_Witness ==
    /\ ret.op = "interval"
    /\ ~playback.isPlaying
    /\ playback.playbackSpeed = 4
    /\ playback.currentYear = MaxYear
    /\ playback.transitions = 1

\* C39: whatever startPlayback, stopPlayback, togglePlayback, slider and speed
\* changes were made, at most one interval timer is live, and isPlaying holds
\* exactly when one is.
C39_OneTimerIffPlaying ==
    /\ Cardinality(playback.timers) <= 1
    /\ playback.isPlaying <=> playback.timers # {}

\* C40: after an evasive maneuver or a mitigation was confirmed, no ramp step
\* of the action writes the override once the action's last timeout has cleared
\* it, and when every timer has run the override is none, so that live scoring
\* is back.
C40_OverrideClearedForGood ==
    /\ uiTimers.late = {}
    /\ uiTimers.pending = {} => forceScore = NULL

====
